---- MODULE Spec2Model ----
(***************************************************************************)
(* Model of code-fixer's AI repair of one linted file.                     *)
(*                                                                         *)
(* Text is a sequence of code units.  A code unit is one character, except *)
(* that the fence marker and the language tag of a fenced code block are   *)
(* one unit each (FENCE for the three backticks, TAG for "typescript"),     *)
(* which is how the regular expressions of the program see them.           *)
(*                                                                         *)
(* Spec    : the per-line revision, src/src/index.ts 185-257 driving       *)
(*           AiLiteLLM.fixESLintErrors of src/src/ai.ts 240-373.           *)
(* SpecApi : that method of src/src/ai.ts 240-373 alone, on the snippets   *)
(*           of any diagnostics list.                                      *)
(* SpecAst : the syntax-tree revision, src/src/index.ts 650-676 driving    *)
(*           AiLiteLLM.fixESLintErrors of src/unnamed/part_001 138-198.    *)
(* SpecFenced, SpecTimeout : Spec on fenced responses, and with endpoints   *)
(*           that send no response.                                        *)
(* SpecCli : main of src/src/index.ts 388-468 with the user's config.      *)
(* SpecLint: findESLintConfig and getESLintConfig of config-finder.ts.     *)
(* SpecLoop: fixESLintErrors of src/src/index.ts 150-259 over the files    *)
(*           that were linted.                                             *)
(* SpecChat: AiLiteLLM.chat of src/src/ai.ts 121-238.                      *)
(***************************************************************************)
EXTENDS Integers, Sequences, FiniteSets, TLC

VARIABLES
    disk,           \* content of the file on disk
    original,       \* content of the file when the run started (never assigned)
    messages,       \* result.messages of the linter for the file
    backend,        \* the completion backend: column of the diagnostic -> outcome
    pc,             \* position of fixESLintErrors (index.ts) for this file
    sourceText,     \* index.ts:192
    errorSnippets,  \* index.ts:203
    results,        \* values collected by Promise.all, one slot per snippet
    pending,        \* completion requests in flight
    fixedLines,     \* ai.ts:249/314
    fixedCode,      \* ai.ts:330, then index.ts:243
    reported,       \* failure lines written by console.error for this file
    completed,      \* the requests in the order they were answered or rejected
    groups,         \* errorGroups of the syntax-tree revision
    gi,             \* the group the loop of the syntax-tree revision is at
    fixedText,      \* fixedText of the syntax-tree revision
    splices,        \* the calls of ASTUtils.replaceNode, in order
    home,           \* the files of the home directory that hold the user's config
    env,            \* process.env
    options,        \* program.opts() with options.files, index.ts 401-402
    codeFixConfig,  \* ConfigFinder.codeFixConfig, config-finder.ts:36
    files,          \* files of main, index.ts:428
    mainPc,         \* position of main, index.ts 388-468
    aiClient,       \* the AiLiteLLM of fixESLintErrors, index.ts:165
    typesClient,    \* the AiLiteLLM handed to addTypeScriptTypes, index.ts:454
    silent,         \* the requests the endpoint leaves without any response
    filePath,       \* the argument of getESLintConfig, config-finder.ts:121
    fsys,           \* the ESLint config files of the file system, by directory
    currentDir,     \* currentDir of findESLintConfig, config-finder.ts:99
    configPath,     \* configPath of getESLintConfig, config-finder.ts:122
    eslintConfig,   \* what getESLintConfig returns, index.ts:130
    lintPc,         \* position of getESLintConfig and findESLintConfig
    lintResults,    \* results of eslint.lintFiles(files), index.ts:150
    filesWithErrors,\* index.ts:153
    fileIndex,      \* the file the loop of index.ts:186 is at
    diskOf,         \* the content on disk of the files that were linted
    outcomes,       \* how the fix of each file the loop took ended, in order
    loopPc,         \* position of fixESLintErrors, index.ts 121-265
    chatPc,         \* position of AiLiteLLM.chat, ai.ts 121-238
    chatCall,       \* the number of the call of chat that is running
    wire,           \* the requests sent to the endpoints, with what came back
    thrown          \* what the calls of chat threw or returned, in call order

vars == <<disk, original, messages, backend, pc, sourceText, errorSnippets,
          results, pending, fixedLines, fixedCode, reported, completed,
          groups, gi, fixedText, splices,
          home, env, options, codeFixConfig, files, mainPc,
          aiClient, typesClient, silent,
          filePath, fsys, currentDir, configPath, eslintConfig, lintPc,
          lintResults, filesWithErrors, fileIndex, diskOf, outcomes, loopPc,
          chatPc, chatCall, wire, thrown>>

astVars == <<groups, gi, fixedText, splices>>

cliVars == <<home, env, options, codeFixConfig, files, mainPc>>

clientVars == <<aiClient, typesClient, silent>>

lintVars == <<filePath, fsys, currentDir, configPath, eslintConfig, lintPc>>

loopVars == <<lintResults, filesWithErrors, fileIndex, diskOf, outcomes, loopPc>>

chatVars == <<chatPc, chatCall, wire, thrown>>

(* getESLintConfig, the loop over the linted files and chat are not running. *)
LintIdle ==
    /\ filePath = <<>> /\ fsys = <<>> /\ currentDir = <<>> /\ configPath = <<>>
    /\ eslintConfig = <<>> /\ lintPc = "off"

LoopIdle ==
    /\ lintResults = <<>> /\ filesWithErrors = <<>> /\ fileIndex = 0
    /\ diskOf = <<>> /\ outcomes = <<>> /\ loopPc = "off"

ChatIdle ==
    /\ chatPc = "off" /\ chatCall = 0 /\ wire = <<>> /\ thrown = <<>>

----------------------------------------------------------------------------
(* Bounds *)

MaxDiags == 2
MaxLine == 4

Columns == {1, 2}

NL == "\n"
SP == " "
FENCE == "<fence>"
TAG == "typescript"

(* The position computed by a call that threw instead of returning. *)
BadPosition == -1

----------------------------------------------------------------------------
(* JavaScript string primitives on sequences of code units *)

Min(a, b) == IF a < b THEN a ELSE b
Max(a, b) == IF a > b THEN a ELSE b

IsSpace(c) == c \in {SP, NL}

(* String.prototype.substring(a, b), offsets 0-based, end exclusive. *)
Substring(s, a, b) ==
    LET lo == Max(0, Min(Min(a, b), Len(s)))
        hi == Max(0, Min(Max(a, b), Len(s)))
    IN  SubSeq(s, lo + 1, hi)

RECURSIVE TrimStart(_)
TrimStart(s) ==
    IF s # <<>> /\ IsSpace(Head(s)) THEN TrimStart(Tail(s)) ELSE s

RECURSIVE TrimEnd(_)
TrimEnd(s) ==
    IF s # <<>> /\ IsSpace(s[Len(s)]) THEN TrimEnd(SubSeq(s, 1, Len(s) - 1)) ELSE s

(* String.prototype.trim() *)
Trim(s) == TrimEnd(TrimStart(s))

(* s.split('\n'): the pieces between line feeds; always at least one piece. *)
RECURSIVE SplitLines(_)
SplitLines(s) ==
    IF \A i \in 1..Len(s) : s[i] # NL
    THEN <<s>>
    ELSE LET k == CHOOSE i \in 1..Len(s) :
                      s[i] = NL /\ \A j \in 1..(i - 1) : s[j] # NL
         IN  <<SubSeq(s, 1, k - 1)>> \o SplitLines(SubSeq(s, k + 1, Len(s)))

(* s.replace(/^```(typescript)?\n/, '') *)
StripOpeningFence(s) ==
    IF Len(s) >= 3 /\ s[1] = FENCE /\ s[2] = TAG /\ s[3] = NL
    THEN SubSeq(s, 4, Len(s))
    ELSE IF Len(s) >= 2 /\ s[1] = FENCE /\ s[2] = NL
         THEN SubSeq(s, 3, Len(s))
         ELSE s

(* s.replace(/\n```$/, '') *)
StripClosingFence(s) ==
    IF Len(s) >= 2 /\ s[Len(s) - 1] = NL /\ s[Len(s)] = FENCE
    THEN SubSeq(s, 1, Len(s) - 2)
    ELSE s

(* ai.ts:293 *)
NormalizeResponse(s) == Trim(StripClosingFence(StripOpeningFence(s)))

(* index.ts:243 *)
StripCodeBlock(s) == StripClosingFence(StripOpeningFence(s))

----------------------------------------------------------------------------
(* TypeScript's line map *)

(* ts.computeLineStarts: offset 0 and the offset after every line feed. *)
LineStarts(text) ==
    LET after == {i \in 1..Len(text) : text[i] = NL}
        n == Cardinality(after)
        Nth[k \in 1..n] ==
            CHOOSE i \in after : Cardinality({j \in after : j < i}) = k - 1
    IN  <<0>> \o [k \in 1..n |-> Nth[k]]

(* The line map read with clamping, as under allowEdits: never a failure. *)
GetPositionClamped(text, line, character) ==
    LET ls == LineStarts(text)
        l == Max(0, Min(line, Len(ls) - 1))
    IN  Min(ls[l + 1] + character, Len(text))

(* sourceFile.getPositionOfLineAndCharacter(line, character), 0-based, without  *)
(* allowEdits: Debug.fail on a line outside the line map, Debug.assert on a     *)
(* character that runs past the line.                                          *)
GetPositionOfLineAndCharacter(text, line, character) ==
    LET ls == LineStarts(text)
    IN  IF line < 0 \/ line >= Len(ls)
        THEN BadPosition
        ELSE LET res == ls[line + 1] + character
             IN  IF line < Len(ls) - 1
                 THEN IF res < ls[line + 2] THEN res ELSE BadPosition
                 ELSE IF res <= Len(text) THEN res ELSE BadPosition

----------------------------------------------------------------------------
(* index.ts 203-236: the snippet of one lint message *)

(* The positions the callback asks the line map for, in the order it asks. *)
SnippetPositions(text, m) ==
    << GetPositionOfLineAndCharacter(text, m.line - 1, m.column - 1),
       GetPositionOfLineAndCharacter(text, m.line, 0),
       GetPositionOfLineAndCharacter(text, m.line - 1, 0),
       GetPositionOfLineAndCharacter(text, m.line, 0),
       GetPositionOfLineAndCharacter(text, Max(0, m.line - 2), 0),
       GetPositionOfLineAndCharacter(text, m.line + 1, 0) >>

(* Whether the callback throws for this message. *)
SnippetThrows(text, m) ==
    \E k \in 1..6 : SnippetPositions(text, m)[k] = BadPosition

(* errorInfo, for a message the callback does not throw on. *)
MakeSnippet(text, m) ==
    LET p == SnippetPositions(text, m)
    IN  [ line    |-> m.line,
          column  |-> m.column,
          code    |-> Trim(Substring(text, p[3], p[4])),
          context |-> Trim(Substring(text, p[5], p[6])) ]

ExtractSnippets(text, msgs) == [i \in 1..Len(msgs) |-> MakeSnippet(text, msgs[i])]

----------------------------------------------------------------------------
(* ai.ts 313-372: reassembly of the fixed lines *)

(* fixedLines.sort((a, b) => a.line - b.line): a stable sort. *)
RECURSIVE InsertByLine(_, _)
InsertByLine(sorted, e) ==
    IF sorted = <<>> THEN <<e>>
    ELSE IF sorted[Len(sorted)].line <= e.line
         THEN Append(sorted, e)
         ELSE Append(InsertByLine(SubSeq(sorted, 1, Len(sorted) - 1), e),
                     sorted[Len(sorted)])

RECURSIVE SortByLine(_)
SortByLine(s) ==
    IF s = <<>> THEN <<>>
    ELSE InsertByLine(SortByLine(SubSeq(s, 1, Len(s) - 1)), s[Len(s)])

(* lines[n] is truthy: set, and not the empty string. *)
Truthy(lines, n) == n \in DOMAIN lines /\ lines[n] # <<>>

(* if (!lines[lineNumber]) lines[lineNumber] = line *)
PutLine(lines, n, txt) ==
    IF Truthy(lines, n) THEN lines
    ELSE [k \in (DOMAIN lines) \cup {n} |-> IF k = n THEN txt ELSE lines[k]]

RECURSIVE PutSnippetLines(_, _, _, _)
PutSnippetLines(lines, snippet, snippetLines, index) ==
    IF index >= Len(snippetLines) THEN lines
    ELSE PutSnippetLines(
             PutLine(lines, snippet.line - Len(snippetLines) + index + 1,
                     snippetLines[index + 1]),
             snippet, snippetLines, index + 1)

(* ai.ts 317-327: the reduce over errorSnippets, from the empty object. *)
RECURSIVE AllOriginalLines(_)
AllOriginalLines(snippets) ==
    IF snippets = <<>> THEN [k \in {} |-> <<>>]
    ELSE LET before == AllOriginalLines(SubSeq(snippets, 1, Len(snippets) - 1))
             snippet == snippets[Len(snippets)]
         IN  PutSnippetLines(before, snippet, SplitLines(snippet.code), 0)

(* The loop "for i from lo to hi: if (lines[i]) fixedCode += lines[i] + NL". *)
RECURSIVE CopyLines(_, _, _)
CopyLines(lines, lo, hi) ==
    IF lo > hi THEN <<>>
    ELSE (IF Truthy(lines, lo) THEN lines[lo] \o <<NL>> ELSE <<>>)
         \o CopyLines(lines, lo + 1, hi)

(* ai.ts 344-359 *)
RECURSIVE EmitFixed(_, _, _)
EmitFixed(fixed, lines, i) ==
    IF i > Len(fixed) THEN <<>>
    ELSE fixed[i].fixedCode \o <<NL>>
         \o (IF i < Len(fixed)
             THEN CopyLines(lines, fixed[i].line + 1, fixed[i + 1].line - 1)
             ELSE <<>>)
         \o EmitFixed(fixed, lines, i + 1)

(* ai.ts 329-372, from the sorted fixedLines and the snippets. *)
AssembleFixedCode(fixed, snippets) ==
    LET lines == AllOriginalLines(snippets)
        firstErrorLine == IF fixed = <<>> THEN 0 ELSE fixed[1].line
        lastErrorLine == IF fixed = <<>> THEN 0 ELSE fixed[Len(fixed)].line
        head == IF firstErrorLine > 1
                THEN CopyLines(lines, 1, firstErrorLine - 1) ELSE <<>>
        tail == IF DOMAIN lines = {} THEN <<>>
                ELSE LET maxLine == CHOOSE k \in DOMAIN lines :
                                        \A j \in DOMAIN lines : j <= k
                     IN  IF lastErrorLine < maxLine
                         THEN CopyLines(lines, lastErrorLine + 1, maxLine)
                         ELSE <<>>
    IN  head \o EmitFixed(fixed, lines, 1) \o tail

----------------------------------------------------------------------------
(* Inputs *)

(* "a\n b\nc\n", "a\n b\nc\nd" and "a\nb": with and without a final line feed. *)
SrcA == <<"a", NL, SP, "b", NL, "c", NL>>
SrcB == <<"a", NL, SP, "b", NL, "c", NL, "d">>
SrcC == <<"a", NL, "b">>
Sources == {SrcA, SrcB, SrcC}

(* What a completion request ends in: a response text, or a rejection. *)
Replied(text) == [ok |-> TRUE, text |-> text]
Rejected == [ok |-> FALSE, text |-> <<>>]
Outcomes ==
    { Replied(<<"x">>),
      Replied(<<FENCE, TAG, NL, "y", NL, FENCE>>),
      Replied(<<>>),
      Rejected }

(* A deterministic backend: the prompt of a diagnostic decides the outcome.   *)
(* The column stands for what tells two prompts of one line apart.            *)
Backends == [Columns -> Outcomes]

Message == [line : 1..MaxLine, column : Columns]

SeqsUpTo(S, n) == UNION {[1..k -> S] : k \in 0..n}

----------------------------------------------------------------------------
(* Promise.all at ai.ts:249: one slot per snippet, in the order of the array *)

EmptySlot == [filled |-> FALSE, line |-> 0, fixedCode |-> <<>>]

(* Collecting in the order of completion: the first slot still empty. *)
StoreInCompletionOrder(res, i, v) ==
    LET k == CHOOSE n \in 1..Len(res) :
                 ~res[n].filled /\ \A m \in 1..(n - 1) : res[m].filled
    IN  [res EXCEPT ![k] = v]

StoreResult(res, i, v) == [res EXCEPT ![i] = v]

(* ai.ts 307-310: what the callback of snippet i returns for a response. *)
FixedLine(snippet, response) ==
    [filled |-> TRUE, line |-> snippet.line, fixedCode |-> NormalizeResponse(response)]

(* The array Promise.all resolves to, once every slot is filled. *)
Collected(res) == [i \in 1..Len(res) |-> [line |-> res[i].line, fixedCode |-> res[i].fixedCode]]

----------------------------------------------------------------------------
(* The user's configuration, process.env and the AI client *)

(* A string value is the sequence of its pieces between colons; <<>> stands  *)
(* for the empty string and for a value that is not set: both are falsy.     *)
KeyOfFile == <<"sk-file">>
KeyOfEnv == <<"sk-env">>
ProxyOfFile == <<"http", "//127.0.0.1", "7890">>
ProxyOfEnv == <<"http", "//10.0.0.1", "8080">>
ModelOfFile == <<"anthropic.claude-3">>
ModelOfEnv == <<"meta.llama2">>
DefaultBedrockModel == <<"anthropic.claude-v2">>
DefaultRegion == <<"us-east-1">>

(* a || b *)
Or(a, b) == IF a # <<>> THEN a ELSE b

(* CodeFixConfig, config-finder.ts 7-20, with the fields the run reads. *)
NoOpenAI == [apiKey |-> <<>>, proxy |-> <<>>]
NoAws == [accessKeyId |-> <<>>, secretAccessKey |-> <<>>, region |-> <<>>,
          model |-> <<>>]
EmptyConfig == [openai |-> NoOpenAI, aws |-> NoAws]

OpenAIOfFile == [apiKey |-> KeyOfFile, proxy |-> ProxyOfFile]
AwsOfFile == [accessKeyId |-> <<"AKIA-file">>, secretAccessKey |-> <<"secret-file">>,
              region |-> <<"eu-west-1">>, model |-> ModelOfFile]

Configs ==
    { [openai |-> OpenAIOfFile, aws |-> NoAws],
      [openai |-> NoOpenAI, aws |-> AwsOfFile],
      [openai |-> OpenAIOfFile, aws |-> AwsOfFile],
      [openai |-> OpenAIOfFile, aws |-> [AwsOfFile EXCEPT !.region = <<>>]] }

(* The text of a config file: the config a user wrote down, as sections of  *)
(* "key: value" lines (yaml) or as one JSON document (json).                *)
ConfigText == [syntax : {"yaml", "json"}, of : Configs]

(* const [key, value] = trimmedLine.split(':'): the value ends at a colon. *)
FirstPiece(v) == IF v = <<>> THEN <<>> ELSE <<v[1]>>

(* ConfigFinder.parseYaml: the "word:" lines open a section, the lines of a  *)
(* section give key and value; no line of a JSON document is a "word:" line, *)
(* so a JSON document gives the empty object.                                *)
ParseYaml(content) ==
    IF content.syntax = "yaml"
    THEN [openai |-> [apiKey |-> FirstPiece(content.of.openai.apiKey),
                      proxy  |-> FirstPiece(content.of.openai.proxy)],
          aws    |-> [accessKeyId     |-> FirstPiece(content.of.aws.accessKeyId),
                      secretAccessKey |-> FirstPiece(content.of.aws.secretAccessKey),
                      region          |-> FirstPiece(content.of.aws.region),
                      model           |-> FirstPiece(content.of.aws.model)]]
    ELSE EmptyConfig

(* JSON.parse: the object of a JSON document; it throws on any other text. *)
JSONParse(content) ==
    [ok     |-> content.syntax = "json",
     config |-> IF content.syntax = "json" THEN content.of ELSE EmptyConfig]

(* A file of the home directory: absent, there but not readable, or readable. *)
NoText == [syntax |-> "yaml", of |-> EmptyConfig]
Absent == [exists |-> FALSE, readable |-> FALSE, content |-> NoText]
Unreadable == [exists |-> TRUE, readable |-> FALSE, content |-> NoText]
Readable(text) == [exists |-> TRUE, readable |-> TRUE, content |-> text]
HomeFiles == {Absent, Unreadable} \cup {Readable(t) : t \in ConfigText}

(* The list with the order reversed. *)
JsonFirst == <<".codefixrc.json", ".codefixrc">>

CODE_FIX_CONFIG_FILES == <<".codefixrc", ".codefixrc.json">>

Homes == [{".codefixrc", ".codefixrc.json"} -> HomeFiles]

(* configFile.endsWith('.json'), on the names of the list *)
EndsWithJson(configFile) == configFile = ".codefixrc.json"

(* null, and a loaded config with the file it came from *)
NoConfig == [loaded |-> FALSE, from |-> "", config |-> EmptyConfig]
Loaded(configFile, config) == [loaded |-> TRUE, from |-> configFile, config |-> config]

(* config-finder.ts 47-65: the first file of the list that is there, can be  *)
(* read and parses; a failure to read or parse goes on with the next file.   *)
RECURSIVE ReadFirstConfig(_, _)
ReadFirstConfig(h, configFiles) ==
    IF configFiles = <<>> THEN NoConfig
    ELSE LET configFile == Head(configFiles)
             f == h[configFile]
         IN  IF f.exists /\ f.readable
                /\ (EndsWithJson(configFile) => JSONParse(f.content).ok)
             THEN Loaded(configFile,
                         IF EndsWithJson(configFile)
                         THEN JSONParse(f.content).config
                         ELSE ParseYaml(f.content))
             ELSE ReadFirstConfig(h, Tail(configFiles))

(* ConfigFinder.loadCodeFixConfig, with its cache *)
LoadCodeFixConfig(cache, h) ==
    IF cache.loaded THEN cache ELSE ReadFirstConfig(h, CODE_FIX_CONFIG_FILES)

(* process.env, with the variables the run reads *)
NoEnv == [OPENAI_API_KEY |-> <<>>, OPENAI_PROXY |-> <<>>,
          AWS_ACCESS_KEY_ID |-> <<>>, AWS_SECRET_ACCESS_KEY |-> <<>>,
          AWS_REGION |-> <<>>, BEDROCK_MODEL |-> <<>>]

Envs ==
    { NoEnv,
      [NoEnv EXCEPT !.OPENAI_API_KEY = KeyOfEnv],
      [NoEnv EXCEPT !.OPENAI_API_KEY = KeyOfEnv, !.OPENAI_PROXY = ProxyOfEnv],
      [NoEnv EXCEPT !.AWS_ACCESS_KEY_ID = <<"AKIA-env">>,
                    !.AWS_SECRET_ACCESS_KEY = <<"secret-env">>,
                    !.AWS_REGION = <<"us-west-2">>,
                    !.BEDROCK_MODEL = ModelOfEnv],
      [NoEnv EXCEPT !.OPENAI_API_KEY = KeyOfEnv,
                    !.AWS_ACCESS_KEY_ID = <<"AKIA-env">>,
                    !.AWS_SECRET_ACCESS_KEY = <<"secret-env">>] }

(* ConfigFinder.getEnvConfig *)
GetEnvConfig(cfg, e) ==
    IF ~cfg.loaded
    THEN [e EXCEPT !.BEDROCK_MODEL = Or(e.BEDROCK_MODEL, DefaultBedrockModel)]
    ELSE [OPENAI_API_KEY        |-> Or(cfg.config.openai.apiKey, e.OPENAI_API_KEY),
          OPENAI_PROXY          |-> Or(cfg.config.openai.proxy, e.OPENAI_PROXY),
          AWS_ACCESS_KEY_ID     |-> Or(cfg.config.aws.accessKeyId, e.AWS_ACCESS_KEY_ID),
          AWS_SECRET_ACCESS_KEY |-> Or(cfg.config.aws.secretAccessKey,
                                       e.AWS_SECRET_ACCESS_KEY),
          AWS_REGION            |-> Or(cfg.config.aws.region, e.AWS_REGION),
          BEDROCK_MODEL         |-> Or(Or(cfg.config.aws.model, e.BEDROCK_MODEL),
                                       DefaultBedrockModel)]

(* The check with the region left out. *)
CheckWithoutRegion(useBedrock, cfg, e) ==
    LET envConfig == GetEnvConfig(cfg, e)
    IN  [env   |-> IF envConfig.OPENAI_API_KEY # <<>>
                   THEN [e EXCEPT !.OPENAI_API_KEY = envConfig.OPENAI_API_KEY]
                   ELSE e,
         threw |-> IF useBedrock
                   THEN \/ envConfig.AWS_ACCESS_KEY_ID = <<>>
                        \/ envConfig.AWS_SECRET_ACCESS_KEY = <<>>
                   ELSE envConfig.OPENAI_API_KEY = <<>>]

(* ConfigFinder.checkRequiredEnvVars: what it writes to process.env (the key; *)
(* the base address and the model name go with it) and whether it throws.     *)
CheckRequiredEnvVars(useBedrock, cfg, e) ==
    LET envConfig == GetEnvConfig(cfg, e)
    IN  [env   |-> IF envConfig.OPENAI_API_KEY # <<>>
                   THEN [e EXCEPT !.OPENAI_API_KEY = envConfig.OPENAI_API_KEY]
                   ELSE e,
         threw |-> IF useBedrock
                   THEN \/ envConfig.AWS_ACCESS_KEY_ID = <<>>
                        \/ envConfig.AWS_SECRET_ACCESS_KEY = <<>>
                        \/ envConfig.AWS_REGION = <<>>
                   ELSE envConfig.OPENAI_API_KEY = <<>>]

(* clientConfig.timeout, in milliseconds *)
OpenAITimeout == 120000

(* No request timeout: what a client that is given none waits with. *)
NoTimeout == 0

NoCredentials == [accessKeyId |-> <<>>, secretAccessKey |-> <<>>, region |-> <<>>]

(* No AiLiteLLM: null, undefined. *)
NoClient ==
    [created |-> FALSE, useBedrock |-> FALSE, apiKey |-> <<>>, proxy |-> <<>>,
     timeout |-> NoTimeout, credentials |-> NoCredentials]

(* ai.ts 40-70: the OpenAI client *)
OpenAIClient(apiKey, proxy) ==
    [created |-> TRUE, useBedrock |-> FALSE, apiKey |-> apiKey, proxy |-> proxy,
     timeout |-> OpenAITimeout, credentials |-> NoCredentials]

(* ai.ts 26-38: the Bedrock client, made from region and credentials alone *)
BedrockClient(bedrockCredentials, e) ==
    [created |-> TRUE, useBedrock |-> TRUE, apiKey |-> <<>>, proxy |-> <<>>,
     timeout |-> NoTimeout,
     credentials |-> [accessKeyId     |-> bedrockCredentials.accessKeyId,
                      secretAccessKey |-> bedrockCredentials.secretAccessKey,
                      region          |-> Or(Or(bedrockCredentials.region, e.AWS_REGION),
                                             DefaultRegion)]]

(* new AiLiteLLM({ useBedrock, bedrockCredentials }): the object, or a throw *)
NewAiLiteLLM(useBedrock, bedrockCredentials, e) ==
    IF useBedrock
    THEN IF bedrockCredentials.accessKeyId = <<>>
            \/ bedrockCredentials.secretAccessKey = <<>>
         THEN [threw |-> TRUE, client |-> NoClient]
         ELSE [threw |-> FALSE, client |-> BedrockClient(bedrockCredentials, e)]
    ELSE IF e.OPENAI_API_KEY = <<>>
         THEN [threw |-> TRUE, client |-> NoClient]
         ELSE [threw |-> FALSE,
               client |-> OpenAIClient(e.OPENAI_API_KEY, e.OPENAI_PROXY)]

(* ai.ts:126: the model a Bedrock request names *)
BedrockModelId(e) == Or(e.BEDROCK_MODEL, DefaultBedrockModel)

(* main is not running. *)
NoOptions == [eslint |-> FALSE, typescript |-> FALSE, ai |-> FALSE,
              useBedrock |-> FALSE, files |-> <<>>]

CliIdle ==
    /\ home = [n \in {".codefixrc", ".codefixrc.json"} |-> Absent]
    /\ env = NoEnv
    /\ options = NoOptions
    /\ codeFixConfig = NoConfig
    /\ files = <<>>
    /\ mainPc = "off"

(* The client of the fix is there (index.ts:201); every request gets a     *)
(* response or a rejection.                                                 *)
ClientReady ==
    /\ aiClient = OpenAIClient(KeyOfEnv, <<>>)
    /\ typesClient = NoClient
    /\ silent = {}

----------------------------------------------------------------------------
(* index.ts 185-257: the loop body for one file of filesWithErrors *)

FixFailed == "fix failed"

Init ==
    /\ original \in Sources
    /\ disk = original
    /\ messages \in SeqsUpTo(Message, MaxDiags) \ {<<>>}
    /\ backend \in Backends
    /\ pc = "start"
    /\ sourceText = <<>>
    /\ errorSnippets = <<>>
    /\ results = <<>>
    /\ pending = {}
    /\ fixedLines = <<>>
    /\ fixedCode = <<>>
    /\ reported = <<>>
    /\ completed = <<>>
    /\ groups = <<>> /\ gi = 0 /\ fixedText = <<>> /\ splices = <<>>
    /\ CliIdle
    /\ LintIdle /\ LoopIdle /\ ChatIdle
    /\ ClientReady

(* index.ts:192 *)
ReadFile ==
    /\ pc = "start"
    /\ sourceText' = disk
    /\ pc' = "read"
    /\ UNCHANGED <<disk, original, messages, backend, errorSnippets, results,
                   pending, fixedLines, fixedCode, reported, completed>>
    /\ UNCHANGED astVars
    /\ UNCHANGED <<cliVars, clientVars, lintVars, loopVars, chatVars>>

(* index.ts 203-236 throws: the catch of index.ts 252-256. *)
ExtractThrows ==
    /\ pc = "read"
    /\ aiClient.created
    /\ \E i \in 1..Len(messages) : SnippetThrows(sourceText, messages[i])
    /\ pc' = "failed"
    /\ reported' = Append(reported, FixFailed)
    /\ UNCHANGED <<disk, original, messages, backend, sourceText, errorSnippets,
                   results, pending, fixedLines, fixedCode, completed>>
    /\ UNCHANGED astVars
    /\ UNCHANGED <<cliVars, clientVars, lintVars, loopVars, chatVars>>

(* index.ts 203-241 and ai.ts 249-290: the snippets, then one request each. *)
CallFix ==
    /\ pc = "read"
    /\ aiClient.created
    /\ \A i \in 1..Len(messages) : ~SnippetThrows(sourceText, messages[i])
    /\ errorSnippets' = ExtractSnippets(sourceText, messages)
    /\ results' = [i \in 1..Len(messages) |-> EmptySlot]
    /\ pending' = 1..Len(messages)
    /\ pc' = "waiting"
    /\ UNCHANGED <<disk, original, messages, backend, sourceText, fixedLines,
                   fixedCode, reported, completed>>
    /\ UNCHANGED astVars
    /\ UNCHANGED <<cliVars, clientVars, lintVars, loopVars, chatVars>>

(* ai.ts 289-310: request i is answered. *)
Resolve(i) ==
    /\ i \in pending
    /\ backend[errorSnippets[i].column].ok
    /\ results' = StoreResult(results, i,
                      FixedLine(errorSnippets[i], backend[errorSnippets[i].column].text))
    /\ pending' = pending \ {i}
    /\ completed' = Append(completed, i)
    /\ UNCHANGED <<disk, original, messages, backend, pc, sourceText,
                   errorSnippets, fixedLines, fixedCode, reported>>
    /\ UNCHANGED astVars
    /\ UNCHANGED <<cliVars, clientVars, lintVars, loopVars, chatVars>>

(* ai.ts:275 rejects: Promise.all rejects, index.ts:241 throws, index.ts 252-256. *)
Reject(i) ==
    /\ i \in pending
    /\ ~backend[errorSnippets[i].column].ok
    /\ pending' = pending \ {i}
    /\ completed' = Append(completed, i)
    /\ IF pc = "waiting"
       THEN pc' = "failed" /\ reported' = Append(reported, FixFailed)
       ELSE UNCHANGED <<pc, reported>>
    /\ UNCHANGED <<disk, original, messages, backend, sourceText, errorSnippets,
                   results, fixedLines, fixedCode>>
    /\ UNCHANGED astVars
    /\ UNCHANGED <<cliVars, clientVars, lintVars, loopVars, chatVars>>

(* ai.ts 313-372, index.ts:243 *)
Assemble ==
    /\ pc = "waiting"
    /\ pending = {}
    /\ fixedLines' = SortByLine(Collected(results))
    /\ fixedCode' = StripCodeBlock(AssembleFixedCode(fixedLines', errorSnippets))
    /\ pc' = "assembled"
    /\ UNCHANGED <<disk, original, messages, backend, sourceText, errorSnippets,
                   results, pending, reported, completed>>
    /\ UNCHANGED astVars
    /\ UNCHANGED <<cliVars, clientVars, lintVars, loopVars, chatVars>>

(* The write without the fix having finished. *)
WriteAnyway ==
    /\ pc \in {"assembled", "failed"}
    /\ disk' = fixedCode
    /\ pc' = "done"
    /\ UNCHANGED <<original, messages, backend, sourceText, errorSnippets,
                   results, pending, fixedLines, fixedCode, reported, completed>>
    /\ UNCHANGED astVars
    /\ UNCHANGED <<cliVars, clientVars, lintVars, loopVars, chatVars>>

(* index.ts:250 *)
WriteFile ==
    /\ pc = "assembled"
    /\ disk' = fixedCode
    /\ pc' = "done"
    /\ UNCHANGED <<original, messages, backend, sourceText, errorSnippets,
                   results, pending, fixedLines, fixedCode, reported, completed>>
    /\ UNCHANGED astVars
    /\ UNCHANGED <<cliVars, clientVars, lintVars, loopVars, chatVars>>

Next ==
    \/ ReadFile
    \/ ExtractThrows
    \/ CallFix
    \/ \E i \in 1..MaxDiags : Resolve(i)
    \/ \E i \in 1..MaxDiags : Reject(i)
    \/ Assemble
    \/ WriteFile

Spec == Init /\ [][Next]_vars

----------------------------------------------------------------------------
(* AiLiteLLM.fixESLintErrors(errorSnippets) of ai.ts 240-373 on its own: the *)
(* method applied to the snippets of any list of diagnostics of a source,    *)
(* the empty list included.                                                  *)

InitApi ==
    /\ original \in Sources
    /\ disk = original
    /\ messages \in SeqsUpTo(Message, MaxDiags)
    /\ \A i \in 1..Len(messages) : ~SnippetThrows(original, messages[i])
    /\ backend \in Backends
    /\ pc = "called"
    /\ sourceText = original
    /\ errorSnippets = ExtractSnippets(original, messages)
    /\ results = <<>>
    /\ pending = {}
    /\ fixedLines = <<>>
    /\ fixedCode = <<>>
    /\ reported = <<>>
    /\ completed = <<>>
    /\ groups = <<>> /\ gi = 0 /\ fixedText = <<>> /\ splices = <<>>
    /\ CliIdle
    /\ LintIdle /\ LoopIdle /\ ChatIdle
    /\ ClientReady

(* ai.ts 249-290: one request per snippet. *)
ApiFanOut ==
    /\ pc = "called"
    /\ results' = [i \in 1..Len(errorSnippets) |-> EmptySlot]
    /\ pending' = 1..Len(errorSnippets)
    /\ pc' = "waiting"
    /\ UNCHANGED <<disk, original, messages, backend, sourceText, errorSnippets,
                   fixedLines, fixedCode, reported, completed>>
    /\ UNCHANGED astVars
    /\ UNCHANGED <<cliVars, clientVars, lintVars, loopVars, chatVars>>

(* ai.ts:275 rejects: Promise.all, and with it the method, rejects. *)
ApiReject(i) ==
    /\ i \in pending
    /\ ~backend[errorSnippets[i].column].ok
    /\ pending' = pending \ {i}
    /\ completed' = Append(completed, i)
    /\ pc' = IF pc = "waiting" THEN "rejected" ELSE pc
    /\ UNCHANGED <<disk, original, messages, backend, sourceText, errorSnippets,
                   results, fixedLines, fixedCode, reported>>
    /\ UNCHANGED astVars
    /\ UNCHANGED <<cliVars, clientVars, lintVars, loopVars, chatVars>>

(* ai.ts 313-372: the method returns fixedCode. *)
ApiReturn ==
    /\ pc = "waiting"
    /\ pending = {}
    /\ fixedLines' = SortByLine(Collected(results))
    /\ fixedCode' = AssembleFixedCode(fixedLines', errorSnippets)
    /\ pc' = "returned"
    /\ UNCHANGED <<disk, original, messages, backend, sourceText, errorSnippets,
                   results, pending, reported, completed>>
    /\ UNCHANGED astVars
    /\ UNCHANGED <<cliVars, clientVars, lintVars, loopVars, chatVars>>

NextApi ==
    \/ ApiFanOut
    \/ \E i \in 1..MaxDiags : Resolve(i)
    \/ \E i \in 1..MaxDiags : ApiReject(i)
    \/ ApiReturn

SpecApi == InitApi /\ [][NextApi]_vars

----------------------------------------------------------------------------
(* The syntax-tree revision: part_001 138-198 with index.ts 650-676.         *)
(* ASTUtils (./ast) is not among the sources: its grouping, its span lookup  *)
(* and its replaceNode follow the written specification (4.1, 4.2, 4.4, 4.6) *)
(* and the use part_001 makes of them: a map from rule id to a group with    *)
(* messages and nodes.                                                       *)

Rules == {"r1", "r2"}

AstMessage == [line : 1..MaxLine, column : Columns, ruleId : Rules]

AstBackends == [Rules -> Outcomes]

(* Position Mapper (4.1): the offset of a 1-based line and column; not found *)
(* when the line is past the last line or the column past the line's end.    *)
OffsetOf(text, line, column) ==
    LET ls == SplitLines(text)
        ll == LineStarts(text)
    IN  IF line > Len(ls) \/ column > Len(ls[line]) + 1
        THEN BadPosition
        ELSE ll[line] + column - 1

(* The repairable units of a text: one statement per line that is not blank, *)
(* from its first to after its last character that is no white space.        *)
AstNodes(text) ==
    LET ls == SplitLines(text)
        ll == LineStarts(text)
    IN  { [start |-> ll[k] + (Len(ls[k]) - Len(TrimStart(ls[k]))),
           end   |-> ll[k] + (Len(ls[k]) - Len(TrimStart(ls[k]))) + Len(Trim(ls[k]))]
          : k \in {n \in 1..Len(ls) : Trim(ls[n]) # <<>>} }

(* Span Locator (4.2): the unit whose span holds the offset, if there is one. *)
Locatable(text, m) ==
    /\ OffsetOf(text, m.line, m.column) # BadPosition
    /\ \E n \in AstNodes(text) :
           n.start <= OffsetOf(text, m.line, m.column)
           /\ OffsetOf(text, m.line, m.column) <= n.end

Locate(text, m) ==
    CHOOSE n \in AstNodes(text) :
        n.start <= OffsetOf(text, m.line, m.column)
        /\ OffsetOf(text, m.line, m.column) <= n.end

(* The elements of a sequence without repetition, in order of first occurrence. *)
RECURSIVE Distinct(_)
Distinct(s) ==
    IF s = <<>> THEN <<>>
    ELSE LET d == Distinct(SubSeq(s, 1, Len(s) - 1))
         IN  IF \E k \in 1..Len(d) : d[k] = s[Len(s)] THEN d ELSE Append(d, s[Len(s)])

(* ASTUtils.groupErrorsByType: one group per rule id, in the order the rule  *)
(* ids first occur, holding the messages that have a span and their nodes.   *)
GroupErrorsByType(text, msgs) ==
    LET ruleIds == Distinct([i \in 1..Len(msgs) |-> msgs[i].ruleId])
        Of(r) == LET Keep(m) == m.ruleId = r /\ Locatable(text, m)
                 IN  SelectSeq(msgs, Keep)
    IN  [g \in 1..Len(ruleIds) |->
            [ruleId   |-> ruleIds[g],
             messages |-> Of(ruleIds[g]),
             nodes    |-> Distinct([i \in 1..Len(Of(ruleIds[g])) |->
                                       Locate(text, Of(ruleIds[g])[i])])]]

(* ASTUtils.replaceNode(text, node, newText): the span of the node, as the   *)
(* parse of the source text gave it, replaced in text.                       *)
ReplaceNode(text, node, newText) ==
    Substring(text, 0, node.start) \o newText \o Substring(text, node.end, Len(text))

(* part_001 181-183 *)
RECURSIVE ReplaceNodes(_, _, _)
ReplaceNodes(text, nodes, newText) ==
    IF nodes = <<>> THEN text
    ELSE ReplaceNodes(ReplaceNode(text, Head(nodes), newText), Tail(nodes), newText)

InitAst ==
    /\ original \in Sources
    /\ disk = original
    /\ messages \in SeqsUpTo(AstMessage, MaxDiags) \ {<<>>}
    /\ backend \in AstBackends
    /\ pc = "start"
    /\ sourceText = <<>>
    /\ errorSnippets = <<>>
    /\ results = <<>>
    /\ pending = {}
    /\ fixedLines = <<>>
    /\ fixedCode = <<>>
    /\ reported = <<>>
    /\ completed = <<>>
    /\ groups = <<>> /\ gi = 0 /\ fixedText = <<>> /\ splices = <<>>
    /\ CliIdle
    /\ LintIdle /\ LoopIdle /\ ChatIdle
    /\ ClientReady

(* part_001 141-150 *)
AstGroup ==
    /\ pc = "read"
    /\ groups' = GroupErrorsByType(sourceText, messages)
    /\ fixedText' = sourceText
    /\ gi' = 1
    /\ pc' = "loop"
    /\ UNCHANGED <<disk, original, messages, backend, sourceText, errorSnippets,
                   results, pending, fixedLines, fixedCode, reported, completed,
                   splices>>
    /\ UNCHANGED <<cliVars, clientVars, lintVars, loopVars, chatVars>>

(* part_001:154 *)
AstSkipEmpty ==
    /\ pc = "loop"
    /\ gi <= Len(groups)
    /\ groups[gi].messages = <<>>
    /\ gi' = gi + 1
    /\ UNCHANGED <<disk, original, messages, backend, pc, sourceText,
                   errorSnippets, results, pending, fixedLines, fixedCode,
                   reported, completed, groups, fixedText, splices>>
    /\ UNCHANGED <<cliVars, clientVars, lintVars, loopVars, chatVars>>

(* part_001 156-177: the prompt of the group is sent. *)
AstAsk ==
    /\ pc = "loop"
    /\ gi <= Len(groups)
    /\ groups[gi].messages # <<>>
    /\ pending' = {gi}
    /\ pc' = "asking"
    /\ UNCHANGED <<disk, original, messages, backend, sourceText, errorSnippets,
                   results, fixedLines, fixedCode, reported, completed,
                   groups, gi, fixedText, splices>>
    /\ UNCHANGED <<cliVars, clientVars, lintVars, loopVars, chatVars>>

(* part_001 177-185: the response, trimmed, replaces every node of the group. *)
AstAnswer ==
    /\ pc = "asking"
    /\ backend[groups[gi].ruleId].ok
    /\ fixedText' = ReplaceNodes(fixedText, groups[gi].nodes,
                                 Trim(backend[groups[gi].ruleId].text))
    /\ splices' = splices \o [k \in 1..Len(groups[gi].nodes) |->
                                 [group |-> gi, node |-> groups[gi].nodes[k]]]
    /\ pending' = {}
    /\ completed' = Append(completed, gi)
    /\ gi' = gi + 1
    /\ pc' = "loop"
    /\ UNCHANGED <<disk, original, messages, backend, sourceText, errorSnippets,
                   results, fixedLines, fixedCode, reported, groups>>
    /\ UNCHANGED <<cliVars, clientVars, lintVars, loopVars, chatVars>>

(* part_001 186-190: chat throws, the loop goes on with the next group. *)
AstChatFails ==
    /\ pc = "asking"
    /\ ~backend[groups[gi].ruleId].ok
    /\ reported' = Append(reported, FixFailed)
    /\ pending' = {}
    /\ completed' = Append(completed, gi)
    /\ gi' = gi + 1
    /\ pc' = "loop"
    /\ UNCHANGED <<disk, original, messages, backend, sourceText, errorSnippets,
                   results, fixedLines, fixedCode, groups, fixedText, splices>>
    /\ UNCHANGED <<cliVars, clientVars, lintVars, loopVars, chatVars>>

(* part_001:193, index.ts:662 *)
AstReturn ==
    /\ pc = "loop"
    /\ gi > Len(groups)
    /\ fixedCode' = fixedText
    /\ pc' = "assembled"
    /\ UNCHANGED <<disk, original, messages, backend, sourceText, errorSnippets,
                   results, pending, fixedLines, reported, completed,
                   groups, gi, fixedText, splices>>
    /\ UNCHANGED <<cliVars, clientVars, lintVars, loopVars, chatVars>>

NextAst ==
    \/ ReadFile
    \/ AstGroup
    \/ AstSkipEmpty
    \/ AstAsk
    \/ AstAnswer
    \/ AstChatFails
    \/ AstReturn
    \/ WriteFile

SpecAst == InitAst /\ [][NextAst]_vars

----------------------------------------------------------------------------
(* The per-line revision on responses that are fenced code blocks: ai.ts     *)
(* 289-293 and index.ts 241-243 at work on what a model sends back.          *)

(* A language tag that is not "typescript". *)
JSTAG == "js"

(* The code "y" in a fenced block: white space, the opening fence with a    *)
(* tag or with none, the code, the closing fence, white space.              *)
Fenced(lead, tag, trail) ==
    Replied(lead \o <<FENCE>> \o tag \o <<NL, "y", NL, FENCE>> \o trail)

FencedOutcomes ==
    { Fenced(w, t, w) : w \in {<<>>, <<NL>>}, t \in {<<>>, <<TAG>>, <<JSTAG>>} }

InitFenced ==
    /\ original \in Sources
    /\ disk = original
    /\ messages \in SeqsUpTo(Message, MaxDiags) \ {<<>>}
    /\ backend \in [Columns -> FencedOutcomes \cup {Rejected}]
    /\ pc = "start"
    /\ sourceText = <<>>
    /\ errorSnippets = <<>>
    /\ results = <<>>
    /\ pending = {}
    /\ fixedLines = <<>>
    /\ fixedCode = <<>>
    /\ reported = <<>>
    /\ completed = <<>>
    /\ groups = <<>> /\ gi = 0 /\ fixedText = <<>> /\ splices = <<>>
    /\ CliIdle
    /\ LintIdle /\ LoopIdle /\ ChatIdle
    /\ ClientReady

SpecFenced == InitFenced /\ [][Next]_vars

----------------------------------------------------------------------------
(* The per-line revision with an endpoint that may leave a request without   *)
(* any response.  The OpenAI client is made with a timeout (ai.ts 54-62):    *)
(* when it elapses, retries included, the request is rejected.  The Bedrock  *)
(* client is made from region and credentials alone (ai.ts 32-38): nothing   *)
(* ends a request of it that gets no response.                               *)

CredentialsOfEnv ==
    [accessKeyId |-> <<"AKIA-env">>, secretAccessKey |-> <<"secret-env">>,
     region |-> <<"us-west-2">>]

InitTimeout ==
    /\ original \in Sources
    /\ disk = original
    /\ messages \in SeqsUpTo(Message, MaxDiags) \ {<<>>}
    /\ backend \in [Columns -> {Replied(<<"x">>), Rejected}]
    /\ pc = "start"
    /\ sourceText = <<>>
    /\ errorSnippets = <<>>
    /\ results = <<>>
    /\ pending = {}
    /\ fixedLines = <<>>
    /\ fixedCode = <<>>
    /\ reported = <<>>
    /\ completed = <<>>
    /\ groups = <<>> /\ gi = 0 /\ fixedText = <<>> /\ splices = <<>>
    /\ CliIdle
    /\ LintIdle /\ LoopIdle /\ ChatIdle
    /\ aiClient \in {OpenAIClient(KeyOfEnv, <<>>), BedrockClient(CredentialsOfEnv, NoEnv)}
    /\ typesClient = NoClient
    /\ silent \in SUBSET (1..Len(messages))

(* ai.ts 289-310: the endpoint answers request i. *)
Responds(i) ==
    /\ i \notin silent
    /\ Resolve(i)

(* ai.ts 261, 275: the endpoint or the network fails request i. *)
Fails(i) ==
    /\ i \notin silent
    /\ Reject(i)

(* ai.ts 57, 275: the timeout of the client ends request i, which rejects. *)
TimeoutElapses(i) ==
    /\ i \in pending
    /\ i \in silent
    /\ aiClient.timeout > NoTimeout
    /\ pending' = pending \ {i}
    /\ completed' = Append(completed, i)
    /\ IF pc = "waiting"
       THEN pc' = "failed" /\ reported' = Append(reported, FixFailed)
       ELSE UNCHANGED <<pc, reported>>
    /\ UNCHANGED <<disk, original, messages, backend, sourceText, errorSnippets,
                   results, fixedLines, fixedCode>>
    /\ UNCHANGED astVars
    /\ UNCHANGED <<cliVars, clientVars, lintVars, loopVars, chatVars>>

NextTimeout ==
    \/ ReadFile
    \/ ExtractThrows
    \/ CallFix
    \/ \E i \in 1..MaxDiags : Responds(i)
    \/ \E i \in 1..MaxDiags : Fails(i)
    \/ \E i \in 1..MaxDiags : TimeoutElapses(i)
    \/ Assemble
    \/ WriteFile

SpecTimeout == InitTimeout /\ [][NextTimeout]_vars

----------------------------------------------------------------------------
(* main of index.ts 388-468, with ConfigFinder and the AiLiteLLM constructor. *)
(* The fix of the files themselves (index.ts 185-257) is the matter of Spec;  *)
(* here the linter finds a file with errors or finds none.                    *)

(* A file: the directories from the project root down, its name and its      *)
(* extension.  The names of the directories of the tree contain an ignore    *)
(* pattern only by being one.                                                *)
File(dir, name, ext) == [dir |-> dir, name |-> name, ext |-> ext]

(* The files of the project, in the order a scan from the root meets them. *)
ProjectEntries ==
    << File(<<>>, "index", ".js"),
       File(<<"src">>, "a", ".ts"),
       File(<<"src">>, "notes", ".md"),
       File(<<"src", "build">>, "b", ".ts"),
       File(<<"node_modules", "x">>, "x", ".js"),
       File(<<"dist">>, "a", ".js") >>

(* Every path is taken to be there. *)
ExistsAlways(file) == TRUE

(* require('fs').existsSync(file) *)
ExistsSync(file) == \E k \in 1..Len(ProjectEntries) : ProjectEntries[k] = file

(* CONFIG, index.ts 31-37 *)
EslintExtensions == {".js", ".jsx", ".ts", ".tsx"}
TypescriptExtensions == {".ts", ".tsx"}
IgnorePatterns == {"node_modules", "dist", "build"}

(* index.ts 103-109, 70-76: the pushes for one file *)
PushFile(opts, file) ==
    (IF opts.eslint /\ file.ext \in EslintExtensions THEN <<file>> ELSE <<>>)
    \o (IF opts.typescript /\ file.ext \in TypescriptExtensions THEN <<file>> ELSE <<>>)

(* index.ts 92-112: a directory whose path includes a pattern is not entered. *)
RECURSIVE ScanDirectory(_, _)
ScanDirectory(opts, entries) ==
    IF entries = <<>> THEN <<>>
    ELSE (IF \E k \in 1..Len(Head(entries).dir) : Head(entries).dir[k] \in IgnorePatterns
          THEN <<>>
          ELSE PushFile(opts, Head(entries)))
         \o ScanDirectory(opts, Tail(entries))

(* index.ts 64-89: the files that were named, those that can be accessed. *)
RECURSIVE NamedFiles(_, _)
NamedFiles(opts, named) ==
    IF named = <<>> THEN <<>>
    ELSE (IF ExistsSync(Head(named)) THEN PushFile(opts, Head(named)) ELSE <<>>)
         \o NamedFiles(opts, Tail(named))

(* getFilesToProcess, index.ts 59-119 *)
GetFilesToProcess(opts) ==
    IF Len(opts.files) > 0
    THEN NamedFiles(opts, opts.files)
    ELSE ScanDirectory(opts, ProjectEntries)

(* The truth value of an array as a condition: true, also when it is empty. *)
IsTruthy(array) == TRUE

(* The file arguments of a run: none, a file of the project, a missing file. *)
ArgLists ==
    { <<>>, <<File(<<"src">>, "a", ".ts")>>, <<File(<<"src">>, "gone", ".ts")>> }

Options == [eslint : BOOLEAN, typescript : BOOLEAN, ai : BOOLEAN,
            useBedrock : BOOLEAN, files : ArgLists]

(* What main writes with console.error before it ends. *)
MissingCredentials == "required variables are missing"
NoOperation == "no operation given"
NoApiKey == "no OpenAI key"
FileNotFound == "file does not exist"
ESLintFailed == "eslint fix failed"
TypesFailed == "adding types failed"

repairVars == <<disk, original, messages, backend, pc, sourceText, errorSnippets,
                results, pending, fixedLines, fixedCode, completed, astVars>>

InitCli ==
    /\ disk = <<>> /\ original = <<>> /\ messages = <<>>
    /\ backend = [c \in Columns |-> Rejected]
    /\ pc = "off"
    /\ sourceText = <<>>
    /\ errorSnippets = <<>>
    /\ results = <<>>
    /\ pending = {}
    /\ fixedLines = <<>>
    /\ fixedCode = <<>>
    /\ reported = <<>>
    /\ completed = <<>>
    /\ groups = <<>> /\ gi = 0 /\ fixedText = <<>> /\ splices = <<>>
    /\ home \in Homes
    /\ env \in Envs
    /\ options \in Options
    /\ codeFixConfig = NoConfig
    /\ files = <<>>
    /\ mainPc = "parsed"
    /\ aiClient = NoClient
    /\ typesClient = NoClient
    /\ silent = {}
    /\ LintIdle /\ LoopIdle /\ ChatIdle

(* index.ts 404-407: with --ai, checkRequiredEnvVars; its throw is outside  *)
(* the try of main and ends the process.                                    *)
MainCheckEnv ==
    /\ mainPc = "parsed"
    /\ IF options.ai
       THEN LET cfg == LoadCodeFixConfig(codeFixConfig, home)
                chk == CheckRequiredEnvVars(options.useBedrock, cfg, env)
            IN  /\ codeFixConfig' = cfg
                /\ env' = chk.env
                /\ IF chk.threw
                   THEN /\ mainPc' = "crashed"
                        /\ reported' = Append(reported, MissingCredentials)
                   ELSE /\ mainPc' = "checked"
                        /\ UNCHANGED reported
       ELSE /\ mainPc' = "checked"
            /\ UNCHANGED <<codeFixConfig, env, reported>>
    /\ UNCHANGED <<home, options, files, aiClient, typesClient, silent>>
    /\ UNCHANGED repairVars
    /\ UNCHANGED <<lintVars, loopVars, chatVars>>

(* index.ts 409-412 *)
MainRequireOperation ==
    /\ mainPc = "checked"
    /\ IF ~options.eslint /\ ~options.typescript
       THEN /\ mainPc' = "exited"
            /\ reported' = Append(reported, NoOperation)
       ELSE /\ mainPc' = "operation"
            /\ UNCHANGED reported
    /\ UNCHANGED <<home, env, options, codeFixConfig, files, aiClient, typesClient,
                   silent>>
    /\ UNCHANGED repairVars
    /\ UNCHANGED <<lintVars, loopVars, chatVars>>

(* index.ts 416-425 *)
MainCheckApiKey ==
    /\ mainPc = "operation"
    /\ codeFixConfig' = LoadCodeFixConfig(codeFixConfig, home)
    /\ IF options.ai /\ GetEnvConfig(codeFixConfig', env).OPENAI_API_KEY = <<>>
       THEN /\ mainPc' = "exited"
            /\ reported' = Append(reported, NoApiKey)
       ELSE /\ mainPc' = "env"
            /\ UNCHANGED reported
    /\ UNCHANGED <<home, env, options, files, aiClient, typesClient, silent>>
    /\ UNCHANGED repairVars
    /\ UNCHANGED <<lintVars, loopVars, chatVars>>

(* index.ts 428-430: path.resolve gives the file a name stands for. *)
MainResolveFiles ==
    /\ mainPc = "env"
    /\ files' = IF IsTruthy(options.files)
                THEN options.files
                ELSE GetFilesToProcess(options)
    /\ mainPc' = "files"
    /\ UNCHANGED <<home, env, options, codeFixConfig, aiClient, typesClient, silent,
                   reported>>
    /\ UNCHANGED repairVars
    /\ UNCHANGED <<lintVars, loopVars, chatVars>>

(* index.ts 433-438 *)
MainCheckExistence ==
    /\ mainPc = "files"
    /\ IF \E k \in 1..Len(files) : ~ExistsSync(files[k])
       THEN /\ mainPc' = "exited"
            /\ reported' = Append(reported, FileNotFound)
       ELSE /\ mainPc' = "exist"
            /\ UNCHANGED reported
    /\ UNCHANGED <<home, env, options, codeFixConfig, files, aiClient, typesClient,
                   silent>>
    /\ UNCHANGED repairVars
    /\ UNCHANGED <<lintVars, loopVars, chatVars>>

(* index.ts 442-450 with 121-183 and 260-264.  Without a first file,        *)
(* getESLintConfig(files[0]) throws on path.dirname(undefined).  When the    *)
(* linter finds a file with errors and --ai is given, the client is made.    *)
MainFixESLint ==
    /\ mainPc = "exist"
    /\ \E found \in BOOLEAN :
         LET envConfig == GetEnvConfig(codeFixConfig, env)
             made == IF options.useBedrock
                     THEN NewAiLiteLLM(TRUE,
                              [accessKeyId     |-> envConfig.AWS_ACCESS_KEY_ID,
                               secretAccessKey |-> envConfig.AWS_SECRET_ACCESS_KEY,
                               region          |-> envConfig.AWS_REGION], env)
                     ELSE NewAiLiteLLM(FALSE, NoCredentials, env)
         IN  IF ~options.eslint
             THEN mainPc' = "eslinted" /\ UNCHANGED <<aiClient, reported>>
             ELSE IF files = <<>> \/ (found /\ options.ai /\ made.threw)
                  THEN /\ mainPc' = "exited"
                       /\ reported' = Append(reported, ESLintFailed)
                       /\ UNCHANGED aiClient
                  ELSE /\ mainPc' = "eslinted"
                       /\ aiClient' = IF found /\ options.ai THEN made.client
                                      ELSE aiClient
                       /\ UNCHANGED reported
    /\ UNCHANGED <<home, env, options, codeFixConfig, files, typesClient, silent>>
    /\ UNCHANGED repairVars
    /\ UNCHANGED <<lintVars, loopVars, chatVars>>

(* index.ts 452-462 *)
MainAddTypes ==
    /\ mainPc = "eslinted"
    /\ LET made == NewAiLiteLLM(FALSE, NoCredentials, env)
       IN  IF options.typescript /\ options.ai /\ made.threw
           THEN /\ mainPc' = "exited"
                /\ reported' = Append(reported, TypesFailed)
                /\ UNCHANGED typesClient
           ELSE /\ mainPc' = "done"
                /\ typesClient' = IF options.typescript /\ options.ai
                                  THEN made.client ELSE typesClient
                /\ UNCHANGED reported
    /\ UNCHANGED <<home, env, options, codeFixConfig, files, aiClient, silent>>
    /\ UNCHANGED repairVars
    /\ UNCHANGED <<lintVars, loopVars, chatVars>>

NextCli ==
    \/ MainCheckEnv
    \/ MainRequireOperation
    \/ MainCheckApiKey
    \/ MainResolveFiles
    \/ MainCheckExistence
    \/ MainFixESLint
    \/ MainAddTypes

SpecCli == InitCli /\ [][NextCli]_vars

----------------------------------------------------------------------------
(* ConfigFinder.findESLintConfig and getESLintConfig, config-finder.ts       *)
(* 98-176, on a file of a directory chain below the file system root.        *)

MaxDepth == 2

(* ConfigFinder.CONFIG_FILES *)
CONFIG_FILES ==
    <<".eslintrc.js", ".eslintrc.cjs", ".eslintrc.json", ".eslintrc.yaml",
      ".eslintrc.yml">>

(* A directory is the sequence of the names from the root down; the root is  *)
(* the empty sequence.  The directories are those of one chain.              *)
Chain == <<"home", "proj", "src", "lib">>
Dirs == {SubSeq(Chain, 1, k) : k \in 0..MaxDepth}

(* path.parse(dir).root *)
RootDir == <<>>

(* path.dirname of a directory: its parent, and the root for the root. *)
DirnameOfDir(dir) == IF dir = <<>> THEN <<>> ELSE SubSeq(dir, 1, Len(dir) - 1)

(* A file path, and path.join(dir, base). *)
PathJoin(dir, base) == [found |-> TRUE, dir |-> dir, base |-> base]

(* null for a path *)
NoPath == [found |-> FALSE, dir |-> <<>>, base |-> ""]

(* path.dirname of a file path *)
Dirname(path) == path.dir

(* ESLint.ConfigData, with the parser and the rules; "" is undefined. *)
DefaultConfig == [parser |-> "@typescript-eslint/parser", rules |-> "default rules"]

UserConfig(rules) == [parser |-> "custom-parser", rules |-> rules]

(* A config file of the file system: not there; or there, readable or not,   *)
(* with a text that is a config in the syntax of its kind or is not.         *)
NoRc == [exists |-> FALSE, readable |-> FALSE, valid |-> FALSE, rules |-> ""]
Rc(readable, valid, rules) ==
    [exists |-> TRUE, readable |-> readable, valid |-> valid, rules |-> rules]
RcFiles ==
    { Rc(FALSE, FALSE, ""), Rc(TRUE, FALSE, ""),
      Rc(TRUE, TRUE, "rules-1"), Rc(TRUE, TRUE, "rules-2") }

Places == {<<d, CONFIG_FILES[n]>> : d \in Dirs, n \in 1..Len(CONFIG_FILES)}

(* The file systems with at most two config files in the chain. *)
FileSystems ==
    { [p \in Places |-> IF p = p1 THEN f1 ELSE IF p = p2 THEN f2 ELSE NoRc] :
        p1 \in Places, p2 \in Places, f1 \in RcFiles \cup {NoRc}, f2 \in RcFiles }

(* fs.access(path.join(dir, base)) resolves *)
Access(fs, dir, base) == fs[<<dir, base>>].exists

(* config-finder.ts 103-111: the first name of the list that is in dir *)
RECURSIVE FirstConfigIn(_, _, _)
FirstConfigIn(fs, dir, configFiles) ==
    IF configFiles = <<>> THEN NoPath
    ELSE IF Access(fs, dir, Head(configFiles))
         THEN PathJoin(dir, Head(configFiles))
         ELSE FirstConfigIn(fs, dir, Tail(configFiles))

(* configPath.endsWith(...) on the names of the list *)
EndsWith(path, suffixes) ==
    \E n \in 1..Len(CONFIG_FILES) :
        /\ path.base = CONFIG_FILES[n]
        /\ \E k \in 1..Len(suffixes) : suffixes[k] = n

(* JSON.parse(content) and require(configPath) throw on a text that is no    *)
(* config in their syntax.                                                   *)
ParserThrows(file) == ~file.valid

(* parseYaml on an ESLint config and config-finder.ts 142-148: the lines of  *)
(* a "word:" section give the keys of the section, a "key: value" line       *)
(* outside of a section gives nothing; no text makes it throw.               *)
YamlConfig(file) ==
    [parser |-> "", rules |-> IF file.valid THEN file.rules ELSE ""]

(* The catch of config-finder.ts 152-154 left out: a failure is thrown on. *)
ReadConfigUncaught(fs, path) ==
    LET file == fs[<<path.dir, path.base>>]
    IN  IF ~file.readable \/ (EndsWith(path, <<1, 2, 3>>) /\ ParserThrows(file))
        THEN [threw |-> TRUE, config |-> DefaultConfig]
        ELSE IF EndsWith(path, <<1, 2, 3>>)
             THEN [threw |-> FALSE, config |-> UserConfig(file.rules)]
             ELSE [threw |-> FALSE, config |-> YamlConfig(file)]

(* config-finder.ts 128-175 with a config path: the config of the file, the  *)
(* default config when the read or the parser throws.                        *)
ReadConfig(fs, path) ==
    LET file == fs[<<path.dir, path.base>>]
    IN  IF ~file.readable \/ (EndsWith(path, <<1, 2, 3>>) /\ ParserThrows(file))
        THEN [threw |-> FALSE, config |-> DefaultConfig]
        ELSE IF EndsWith(path, <<1, 2, 3>>)
             THEN [threw |-> FALSE, config |-> UserConfig(file.rules)]
             ELSE [threw |-> FALSE, config |-> YamlConfig(file)]

InitLint ==
    /\ disk = <<>> /\ original = <<>> /\ messages = <<>>
    /\ backend = [c \in Columns |-> Rejected]
    /\ pc = "off"
    /\ sourceText = <<>>
    /\ errorSnippets = <<>>
    /\ results = <<>>
    /\ pending = {}
    /\ fixedLines = <<>>
    /\ fixedCode = <<>>
    /\ reported = <<>>
    /\ completed = <<>>
    /\ groups = <<>> /\ gi = 0 /\ fixedText = <<>> /\ splices = <<>>
    /\ CliIdle
    /\ ClientReady
    /\ LoopIdle /\ ChatIdle
    /\ filePath \in {PathJoin(d, "a.ts") : d \in Dirs}
    /\ fsys \in FileSystems
    /\ currentDir = <<>>
    /\ configPath = NoPath
    /\ eslintConfig = [threw |-> FALSE, config |-> DefaultConfig]
    /\ lintPc = "start"

(* config-finder.ts 99-100 *)
FindStart ==
    /\ lintPc = "start"
    /\ currentDir' = Dirname(filePath)
    /\ lintPc' = "searching"
    /\ UNCHANGED <<filePath, fsys, configPath, eslintConfig>>
    /\ UNCHANGED <<repairVars, reported, cliVars, clientVars, loopVars, chatVars>>

(* config-finder.ts 102-113: one turn of the while loop *)
FindProbe ==
    /\ lintPc = "searching"
    /\ currentDir # RootDir
    /\ LET path == FirstConfigIn(fsys, currentDir, CONFIG_FILES)
       IN  IF path.found
           THEN /\ configPath' = path
                /\ lintPc' = "found"
                /\ UNCHANGED currentDir
           ELSE /\ currentDir' = DirnameOfDir(currentDir)
                /\ UNCHANGED <<configPath, lintPc>>
    /\ UNCHANGED <<filePath, fsys, eslintConfig>>
    /\ UNCHANGED <<repairVars, reported, cliVars, clientVars, loopVars, chatVars>>

(* config-finder.ts 102, 115: the loop ends at the root, null is returned. *)
FindNull ==
    /\ lintPc = "searching"
    /\ currentDir = RootDir
    /\ configPath' = NoPath
    /\ lintPc' = "found"
    /\ UNCHANGED <<filePath, fsys, currentDir, eslintConfig>>
    /\ UNCHANGED <<repairVars, reported, cliVars, clientVars, loopVars, chatVars>>

(* config-finder.ts 128-175 *)
GetConfig ==
    /\ lintPc = "found"
    /\ eslintConfig' = IF configPath.found
                       THEN ReadConfig(fsys, configPath)
                       ELSE [threw |-> FALSE, config |-> DefaultConfig]
    /\ lintPc' = "returned"
    /\ UNCHANGED <<filePath, fsys, currentDir, configPath>>
    /\ UNCHANGED <<repairVars, reported, cliVars, clientVars, loopVars, chatVars>>

NextLint ==
    \/ FindStart
    \/ FindProbe
    \/ FindNull
    \/ GetConfig

SpecLint == InitLint /\ [][NextLint]_vars

----------------------------------------------------------------------------
(* fixESLintErrors of index.ts 121-265 over the files that were linted: the  *)
(* filter of the results, then the loop, whose body is the fix of one file.  *)

MaxFiles == 2

(* One entry of results: the text of the file, its messages and the number  *)
(* of them that are errors; the others are warnings.                        *)
LintResult(text, msgs, errorCount) ==
    [text |-> text, messages |-> msgs, errorCount |-> errorCount]

LintResults ==
    { LintResult(SrcA, msgs, n) : msgs \in SeqsUpTo(Message, 1), n \in 0..1 }
    \ { LintResult(SrcA, <<>>, 1) }

(* The list with no file left out. *)
EveryResult(lintResult) == [k \in 1..Len(lintResult) |-> k]

(* index.ts:153: results.filter(result => result.errorCount > 0), as the    *)
(* places of the results that are kept.                                      *)
FilterErrors(lintResult) ==
    SelectSeq([k \in 1..Len(lintResult) |-> k],
              LAMBDA k : lintResult[k].errorCount > 0)

(* What ESLint.outputFixes writes for a result: its fix of the text. *)
EslintFixed(text) == <<"f">> \o text

InitLoop ==
    /\ disk = <<>> /\ original = <<>> /\ messages = <<>>
    /\ backend \in [Columns -> {Replied(<<"x">>), Rejected}]
    /\ pc = "off"
    /\ sourceText = <<>>
    /\ errorSnippets = <<>>
    /\ results = <<>>
    /\ pending = {}
    /\ fixedLines = <<>>
    /\ fixedCode = <<>>
    /\ reported = <<>>
    /\ completed = <<>>
    /\ groups = <<>> /\ gi = 0 /\ fixedText = <<>> /\ splices = <<>>
    /\ CliIdle
    /\ aiClient \in {OpenAIClient(KeyOfEnv, <<>>), NoClient}
    /\ typesClient = NoClient
    /\ silent = {}
    /\ LintIdle /\ ChatIdle
    /\ lintResults \in SeqsUpTo(LintResults, MaxFiles) \ {<<>>}
    /\ filesWithErrors = <<>>
    /\ fileIndex = 0
    /\ diskOf = [k \in 1..Len(lintResults) |-> lintResults[k].text]
    /\ outcomes = <<>>
    /\ loopPc = "linted"

(* index.ts 153-157 *)
Filter ==
    /\ loopPc = "linted"
    /\ filesWithErrors' = FilterErrors(lintResults)
    /\ loopPc' = IF filesWithErrors' = <<>> THEN "none" ELSE "looping"
    /\ UNCHANGED <<lintResults, fileIndex, diskOf, outcomes>>
    /\ UNCHANGED <<repairVars, reported, cliVars, clientVars, lintVars, chatVars>>

(* index.ts 186-191: the loop takes the next file of filesWithErrors. *)
LoopTake ==
    /\ loopPc = "looping"
    /\ pc \in {"off", "between"}
    /\ fileIndex < Len(filesWithErrors)
    /\ fileIndex' = fileIndex + 1
    /\ original' = diskOf[filesWithErrors[fileIndex']]
    /\ disk' = diskOf[filesWithErrors[fileIndex']]
    /\ messages' = lintResults[filesWithErrors[fileIndex']].messages
    /\ pc' = "start"
    /\ sourceText' = <<>>
    /\ errorSnippets' = <<>>
    /\ results' = <<>>
    /\ pending' = {}
    /\ fixedLines' = <<>>
    /\ fixedCode' = <<>>
    /\ completed' = <<>>
    /\ UNCHANGED <<backend, reported, astVars>>
    /\ UNCHANGED <<lintResults, filesWithErrors, diskOf, outcomes, loopPc>>
    /\ UNCHANGED <<cliVars, clientVars, lintVars, chatVars>>

(* index.ts 244-248: without a client, the fix of ESLint itself. *)
OutputFixes ==
    /\ pc = "read"
    /\ ~aiClient.created
    /\ disk' = EslintFixed(disk)
    /\ fixedCode' = disk'
    /\ pc' = "assembled"
    /\ UNCHANGED <<original, messages, backend, sourceText, errorSnippets,
                   results, pending, fixedLines, reported, completed>>
    /\ UNCHANGED astVars
    /\ UNCHANGED <<cliVars, clientVars, lintVars, loopVars, chatVars>>

(* The loop ends on the failure of a file. *)
LoopStopsOnFailure ==
    /\ loopPc = "looping"
    /\ pc \in {"done", "failed"}
    /\ diskOf' = [diskOf EXCEPT ![filesWithErrors[fileIndex]] = disk]
    /\ outcomes' = Append(outcomes, pc)
    /\ pc' = "between"
    /\ loopPc' = IF pc = "failed" THEN "exited" ELSE loopPc
    /\ UNCHANGED <<disk, original, messages, backend, sourceText, errorSnippets,
                   results, pending, fixedLines, fixedCode, reported, completed,
                   astVars>>
    /\ UNCHANGED <<lintResults, filesWithErrors, fileIndex>>
    /\ UNCHANGED <<cliVars, clientVars, lintVars, chatVars>>

(* index.ts 251 and 252-256: the body ends, by the write or by the catch    *)
(* with its continue; the loop goes on.                                      *)
LoopNext ==
    /\ loopPc = "looping"
    /\ pc \in {"done", "failed"}
    /\ diskOf' = [diskOf EXCEPT ![filesWithErrors[fileIndex]] = disk]
    /\ outcomes' = Append(outcomes, pc)
    /\ pc' = "between"
    /\ UNCHANGED <<disk, original, messages, backend, sourceText, errorSnippets,
                   results, pending, fixedLines, fixedCode, reported, completed,
                   astVars>>
    /\ UNCHANGED <<lintResults, filesWithErrors, fileIndex, loopPc>>
    /\ UNCHANGED <<cliVars, clientVars, lintVars, chatVars>>

(* index.ts:259: the completion message *)
LoopComplete ==
    /\ loopPc = "looping"
    /\ pc \in {"off", "between"}
    /\ fileIndex = Len(filesWithErrors)
    /\ loopPc' = "complete"
    /\ UNCHANGED <<lintResults, filesWithErrors, fileIndex, diskOf, outcomes>>
    /\ UNCHANGED <<repairVars, reported, cliVars, clientVars, lintVars, chatVars>>

NextLoop ==
    \/ Filter
    \/ LoopTake
    \/ ReadFile
    \/ ExtractThrows
    \/ CallFix
    \/ \E i \in 1..MaxDiags : Resolve(i)
    \/ \E i \in 1..MaxDiags : Reject(i)
    \/ Assemble
    \/ OutputFixes
    \/ WriteFile
    \/ LoopNext
    \/ LoopComplete

SpecLoop == InitLoop /\ [][NextLoop]_vars

----------------------------------------------------------------------------
(* AiLiteLLM.chat of ai.ts 121-238 with testConnection of ai.ts 74-119: the  *)
(* requests a call sends, what comes back, and what the call throws.         *)

MaxCalls == 2

(* What a request is rejected with: an error with the status of a response,  *)
(* with a code, with a name, or with none of them.  0 and "" are undefined.  *)
RawError(status, code, name) ==
    [message |-> "raw", n |-> 0, status |-> status, code |-> code, name |-> name]

(* new Error(message), the message with the status n in it where it has one *)
NewError(message, n) ==
    [message |-> message, n |-> n, status |-> 0, code |-> "", name |-> "Error"]

(* No error: the call returned. *)
NoError == [message |-> "", n |-> 0, status |-> 0, code |-> "", name |-> ""]

OpenAIErrors ==
    {RawError(st, "", "APIError") : st \in {400, 401, 403, 404, 429, 500, 503}}
    \cup {RawError(0, c, "Error") : c \in {"ECONNREFUSED", "ETIMEDOUT", "ENOTFOUND"}}

BedrockErrors ==
    {RawError(0, "", nm) : nm \in {"CredentialsProviderError", "TimeoutError",
                                    "NetworkingError", "ThrottlingException"}}

(* ai.ts 91-118: what the catch of testConnection throws *)
TestConnectionThrow(error) ==
    IF error.status # 0
    THEN CASE error.status = 401 -> NewError("invalid key", 0)
           [] error.status = 403 -> NewError("no permission", 0)
           [] error.status = 404 -> NewError("invalid address", 0)
           [] error.status = 429 -> NewError("rate limit", 0)
           [] OTHER -> NewError("request failed, status", error.status)
    ELSE IF error.code = "ECONNREFUSED" THEN NewError("cannot connect", 0)
    ELSE IF error.code = "ETIMEDOUT" THEN NewError("timed out", 0)
    ELSE error

(* ai.ts 193-227: what the catch of the OpenAI path of chat throws *)
OpenAIThrow(error) ==
    IF error.status # 0
    THEN CASE error.status = 401 -> NewError("invalid key", 0)
           [] error.status = 403 -> NewError("no permission", 0)
           [] error.status = 404 -> NewError("invalid address", 0)
           [] error.status = 429 -> NewError("rate limit", 0)
           [] error.status = 500 -> NewError("server error", 0)
           [] error.status = 503 -> NewError("service unavailable", 0)
           [] OTHER -> NewError("request failed, status", error.status)
    ELSE IF error.code = "ECONNREFUSED" THEN NewError("cannot connect", 0)
    ELSE IF error.code = "ETIMEDOUT" THEN NewError("timed out", 0)
    ELSE error

(* ai.ts 140-152: what the catch of the Bedrock path of chat throws *)
BedrockThrow(error) ==
    IF error.name = "CredentialsProviderError" THEN NewError("invalid credentials", 0)
    ELSE IF error.name = "TimeoutError" THEN NewError("bedrock timed out", 0)
    ELSE IF error.name = "NetworkingError" THEN NewError("cannot connect to bedrock", 0)
    ELSE error

(* An entry of the wire: a request of a call was sent, was answered, or was  *)
(* rejected with an error.                                                   *)
Sent(call, request) ==
    [call |-> call, request |-> request, event |-> "sent", error |-> NoError]
Answered2xx(call, request) ==
    [call |-> call, request |-> request, event |-> "ok", error |-> NoError]
Refused(call, request, error) ==
    [call |-> call, request |-> request, event |-> "failed", error |-> error]

(* How a call of chat ended: it returned the text, or it threw.  The catch  *)
(* of ai.ts 229-237 throws on what it caught.                                *)
Returned(call) == [call |-> call, ok |-> TRUE, error |-> NoError]
Threw(call, error) == [call |-> call, ok |-> FALSE, error |-> error]

InitChat ==
    /\ disk = <<>> /\ original = <<>> /\ messages = <<>>
    /\ backend = [c \in Columns |-> Rejected]
    /\ pc = "off"
    /\ sourceText = <<>>
    /\ errorSnippets = <<>>
    /\ results = <<>>
    /\ pending = {}
    /\ fixedLines = <<>>
    /\ fixedCode = <<>>
    /\ reported = <<>>
    /\ completed = <<>>
    /\ groups = <<>> /\ gi = 0 /\ fixedText = <<>> /\ splices = <<>>
    /\ CliIdle
    /\ aiClient \in {OpenAIClient(KeyOfEnv, <<>>), BedrockClient(CredentialsOfEnv, NoEnv)}
    /\ typesClient = NoClient
    /\ silent = {}
    /\ LintIdle /\ LoopIdle
    /\ chatPc = "idle"
    /\ chatCall = 0
    /\ wire = <<>>
    /\ thrown = <<>>

(* ai.ts 123-136: chat is called with a Bedrock client; the command is sent. *)
ChatBedrock ==
    /\ chatPc = "idle"
    /\ chatCall < MaxCalls
    /\ aiClient.useBedrock
    /\ chatCall' = chatCall + 1
    /\ wire' = Append(wire, Sent(chatCall', "InvokeModel"))
    /\ chatPc' = "invoking"
    /\ UNCHANGED thrown
    /\ UNCHANGED <<repairVars, reported, cliVars, clientVars, lintVars, loopVars>>

(* ai.ts 136-139 *)
BedrockAnswers ==
    /\ chatPc = "invoking"
    /\ wire' = Append(wire, Answered2xx(chatCall, "InvokeModel"))
    /\ thrown' = Append(thrown, Returned(chatCall))
    /\ chatPc' = "idle"
    /\ UNCHANGED chatCall
    /\ UNCHANGED <<repairVars, reported, cliVars, clientVars, lintVars, loopVars>>

(* ai.ts 140-152 *)
BedrockFails(error) ==
    /\ chatPc = "invoking"
    /\ wire' = Append(wire, Refused(chatCall, "InvokeModel", error))
    /\ thrown' = Append(thrown, Threw(chatCall, BedrockThrow(error)))
    /\ chatPc' = "idle"
    /\ UNCHANGED chatCall
    /\ UNCHANGED <<repairVars, reported, cliVars, clientVars, lintVars, loopVars>>

(* ai.ts 155-157, 76-79: chat is called with an OpenAI client;              *)
(* testConnection sends models.list.                                        *)
ChatOpenAI ==
    /\ chatPc = "idle"
    /\ chatCall < MaxCalls
    /\ ~aiClient.useBedrock
    /\ chatCall' = chatCall + 1
    /\ wire' = Append(wire, Sent(chatCall', "models.list"))
    /\ chatPc' = "testing"
    /\ UNCHANGED thrown
    /\ UNCHANGED <<repairVars, reported, cliVars, clientVars, lintVars, loopVars>>

(* ai.ts 79-89, 159-180: the list comes back, the completion request is sent. *)
TestSucceeds ==
    /\ chatPc = "testing"
    /\ wire' = wire \o <<Answered2xx(chatCall, "models.list"),
                         Sent(chatCall, "chat.completions.create")>>
    /\ chatPc' = "completing"
    /\ UNCHANGED <<chatCall, thrown>>
    /\ UNCHANGED <<repairVars, reported, cliVars, clientVars, lintVars, loopVars>>

(* The failure of the connection test is written and the call goes on. *)
TestFailsIgnored(error) ==
    /\ chatPc = "testing"
    /\ wire' = wire \o <<Refused(chatCall, "models.list", error),
                         Sent(chatCall, "chat.completions.create")>>
    /\ chatPc' = "completing"
    /\ UNCHANGED <<chatCall, thrown>>
    /\ UNCHANGED <<repairVars, reported, cliVars, clientVars, lintVars, loopVars>>

(* ai.ts 90-118, then 193-227 and 229-237: testConnection throws, the catch  *)
(* of the OpenAI path and the catch of chat throw on.                        *)
TestFails(error) ==
    /\ chatPc = "testing"
    /\ wire' = Append(wire, Refused(chatCall, "models.list", error))
    /\ thrown' = Append(thrown, Threw(chatCall, OpenAIThrow(TestConnectionThrow(error))))
    /\ chatPc' = "idle"
    /\ UNCHANGED chatCall
    /\ UNCHANGED <<repairVars, reported, cliVars, clientVars, lintVars, loopVars>>

(* ai.ts 182-192 *)
CreateAnswers ==
    /\ chatPc = "completing"
    /\ wire' = Append(wire, Answered2xx(chatCall, "chat.completions.create"))
    /\ thrown' = Append(thrown, Returned(chatCall))
    /\ chatPc' = "idle"
    /\ UNCHANGED chatCall
    /\ UNCHANGED <<repairVars, reported, cliVars, clientVars, lintVars, loopVars>>

(* ai.ts 193-227, 229-237 *)
CreateFails(error) ==
    /\ chatPc = "completing"
    /\ wire' = Append(wire, Refused(chatCall, "chat.completions.create", error))
    /\ thrown' = Append(thrown, Threw(chatCall, OpenAIThrow(error)))
    /\ chatPc' = "idle"
    /\ UNCHANGED chatCall
    /\ UNCHANGED <<repairVars, reported, cliVars, clientVars, lintVars, loopVars>>

NextChat ==
    \/ ChatBedrock
    \/ BedrockAnswers
    \/ \E error \in BedrockErrors : BedrockFails(error)
    \/ ChatOpenAI
    \/ TestSucceeds
    \/ \E error \in OpenAIErrors : TestFails(error)
    \/ CreateAnswers
    \/ \E error \in OpenAIErrors : CreateFails(error)

SpecChat == InitChat /\ [][NextChat]_vars

----------------------------------------------------------------------------
(* The whole fix of one file as a function of its inputs: index.ts 203-243   *)
(* with ai.ts 249-372, the snippets taken and answered in array order.       *)

RepairedText(text, msgs, b) ==
    IF \E i \in 1..Len(msgs) : SnippetThrows(text, msgs[i])
    THEN [written |-> FALSE, text |-> text]
    ELSE LET sn == ExtractSnippets(text, msgs)
         IN  IF \E i \in 1..Len(sn) : ~b[sn[i].column].ok
             THEN [written |-> FALSE, text |-> text]
             ELSE LET fixed == SortByLine(
                          [i \in 1..Len(sn) |->
                              [line |-> sn[i].line,
                               fixedCode |-> NormalizeResponse(b[sn[i].column].text)]])
                  IN  [written |-> TRUE,
                       text |-> StripCodeBlock(AssembleFixedCode(fixed, sn))]

----------------------------------------------------------------------------
(* Vocabulary of the properties *)

(* The lines of a text, as an editor numbers them from 1. *)
LinesOf(text) == SplitLines(text)

(* The number of lines of a file: a final line feed ends the last line. *)
LineCount(text) ==
    IF text # <<>> /\ text[Len(text)] = NL
    THEN Len(SplitLines(text)) - 1
    ELSE Len(SplitLines(text))

DiagLines == {messages[i].line : i \in 1..Len(messages)}

(* The fix of the file is over and no request is in flight. *)
Settled == pc \in {"done", "failed"} /\ pending = {}

(* The response of the backend to diagnostic i, normalised as ai.ts:293 does. *)
Answer(i) == NormalizeResponse(backend[messages[i].column].text)

Answered(i) == backend[messages[i].column].ok

(* Diagnostic i can be given a snippet. *)
Resolvable(i) == ~SnippetThrows(original, messages[i])

Orders(n) == {p \in [1..n -> 1..n] : \A i, j \in 1..n : p[i] = p[j] => i = j}

Permuted(msgs, p) == [i \in 1..Len(msgs) |-> msgs[p[i]]]

----------------------------------------------------------------------------
(* C1: byte preservation.  The text written back has the lines of the       *)
(* original, and every line that no diagnostic points at is the original    *)
(* line, at its original place.                                             *)
C1_BytePreservation ==
    pc = "done" =>
        /\ Len(LinesOf(disk)) = Len(LinesOf(original))
        /\ \A k \in 1..Len(LinesOf(original)) :
               k \notin DiagLines => LinesOf(disk)[k] = LinesOf(original)[k]

(* C2: no-op guard.  A line whose diagnostics were all answered with a       *)
(* response that is empty after fence stripping and trimming is written back *)
(* byte-identical to the original line.                                      *)
C2_NoOpGuard ==
    pc = "done" =>
        \A k \in DiagLines :
            (\A i \in 1..Len(messages) : messages[i].line = k => Answer(i) = <<>>)
            => /\ k <= Len(LinesOf(disk))
               /\ LinesOf(disk)[k] = LinesOf(original)[k]

C4_OrderInvariance ==
    Settled =>
        \A p \in Orders(Len(messages)) :
            RepairedText(original, Permuted(messages, p), backend).text = disk

(* C5: diagnostics that share a line produce one replacement for that line:  *)
(* one completion result is spliced in for it.                               *)
C5_OneReplacementPerSpan ==
    pc \in {"assembled", "done"} =>
        \A k \in DiagLines :
            Cardinality({n \in 1..Len(fixedLines) : fixedLines[n].line = k}) = 1

(* C6: failure containment per group.  When requests were sent and one of    *)
(* them failed, the answered siblings are still in the file at the end, and  *)
(* the line of the failed one is as in the original.                         *)
C6_FailureContainment ==
    (Settled /\ errorSnippets # <<>>) =>
        \A i \in 1..Len(messages) :
            IF Answered(i)
            THEN \E k \in 1..Len(LinesOf(disk)) : LinesOf(disk)[k] = Answer(i)
            ELSE LinesOf(disk)[messages[i].line] = LinesOf(original)[messages[i].line]

(* C7: ordering under concurrent fan-out.  Nothing is assembled or written   *)
(* while a request is in flight; the fixed pieces are applied in ascending   *)
(* line order; and the text is the one function of the inputs, whatever the  *)
(* order in which the requests were answered.                                *)
C7_DeterministicAssembly ==
    /\ pending # {} => (fixedLines = <<>> /\ fixedCode = <<>> /\ disk = original)
    /\ pc \in {"assembled", "done"} =>
           /\ \A n \in 1..(Len(fixedLines) - 1) :
                  fixedLines[n].line <= fixedLines[n + 1].line
           /\ fixedCode = RepairedText(original, messages, backend).text
    /\ pc = "done" => disk = RepairedText(original, messages, backend).text

(* Two requests with different answers for one line, answered in reverse. *)
C7_Witness ==
    /\ pc = "done"
    /\ Len(messages) >= 2
    /\ completed[1] = 2 /\ completed[2] = 1
    /\ messages[1].line = messages[2].line
    /\ Answer(1) # Answer(2)

(* C8: a diagnostic past the last line.  The file is reported as failed, no  *)
(* request is sent for it, nothing is written: it keeps its text.            *)
C8_OutOfRangeSkipped ==
    (\E i \in 1..Len(messages) : messages[i].line > LineCount(original)) =>
        /\ disk = original
        /\ errorSnippets = <<>> /\ pending = {}
        /\ pc \in {"start", "read", "failed"}
        /\ pc = "failed" => reported = <<FixFailed>>

C8_Witness ==
    /\ pc = "failed"
    /\ \E i \in 1..Len(messages) : messages[i].line > LineCount(original)
    /\ \E i \in 1..Len(messages) : Resolvable(i)

(* C9: best-effort repair.  At the end the fix of the file has not failed as *)
(* a whole: every diagnostic that can be resolved and was answered is        *)
(* repaired in the file, and a report is made exactly when some diagnostic   *)
(* could not be.                                                             *)
C9_BestEffort ==
    Settled =>
        /\ \A i \in 1..Len(messages) :
               (Resolvable(i) /\ Answered(i)) =>
                   \E k \in 1..Len(LinesOf(disk)) : LinesOf(disk)[k] = Answer(i)
        /\ (reported # <<>>) <=>
               (\E i \in 1..Len(messages) : ~(Resolvable(i) /\ Answered(i)))

(* C10: every repaired span is replaced exactly once.  The completion result *)
(* of a group that was answered is spliced into the text exactly one time,   *)
(* whatever the number of diagnostics and of syntax nodes of the group.      *)
C10_ReplacedExactlyOnce ==
    pc \in {"assembled", "done"} =>
        \A g \in 1..Len(groups) :
            (groups[g].messages # <<>> /\ backend[groups[g].ruleId].ok) =>
                Cardinality({k \in 1..Len(splices) : splices[k].group = g}) = 1

(* C11: the replacements applied to a text are on pairwise disjoint spans,   *)
(* in ascending order of their start: of two replacements the later one is   *)
(* on a later line, so diagnostics of one region were merged into one.       *)
C11_SpansDisjointAscending ==
    pc \in {"assembled", "done"} =>
        \A n, m \in 1..Len(fixedLines) :
            n < m => fixedLines[n].line < fixedLines[m].line

(* C12: replacements that overlap are refused.  When two snippets to be      *)
(* replaced cover the same line, no text is assembled and nothing is written.*)
C12_OverlapRejected ==
    (\E i, j \in 1..Len(errorSnippets) :
         i # j /\ errorSnippets[i].line = errorSnippets[j].line)
    => /\ pc \notin {"assembled", "done"}
       /\ fixedCode = <<>>
       /\ disk = original

(* The groups that hold diagnostic i, and the groups that repair a node. *)
GroupsWithMessage(i) ==
    {g \in 1..Len(groups) :
        \E k \in 1..Len(groups[g].messages) : groups[g].messages[k] = messages[i]}

GroupsWithNode(node) ==
    {g \in 1..Len(groups) :
        \E k \in 1..Len(groups[g].nodes) : groups[g].nodes[k] = node}

(* C13: grouping is per span.  Every diagnostic that has a span is in        *)
(* exactly one group, and its span is repaired by exactly one group,         *)
(* whatever the rule ids of the diagnostics that share the span.             *)
C13_GroupingPerSpan ==
    pc \in {"loop", "asking", "assembled", "done"} =>
        \A i \in 1..Len(messages) :
            Locatable(sourceText, messages[i]) =>
                /\ Cardinality(GroupsWithMessage(i)) = 1
                /\ Cardinality(GroupsWithNode(Locate(sourceText, messages[i]))) = 1

RECURSIVE JoinLines(_)
JoinLines(ls) ==
    IF ls = <<>> THEN <<>>
    ELSE IF Len(ls) = 1 THEN ls[1]
         ELSE ls[1] \o <<NL>> \o JoinLines(Tail(ls))

(* Lines max(1, L - 1) to min(last, L + 1) of a text. *)
WindowText(text, L) ==
    JoinLines(SubSeq(LinesOf(text), Max(1, L - 1), Min(LineCount(text), L + 1)))

(* C14: context window clamping.  When every diagnostic is on a line of the  *)
(* file, extraction does not fail: each diagnostic gets a snippet, and its   *)
(* context is the text of the lines from the one before to the one after,    *)
(* clamped to the first and the last line of the file.                       *)
C14_ContextClamped ==
    (/\ pc \notin {"start", "read"}
     /\ \A i \in 1..Len(messages) : messages[i].line <= LineCount(original))
    => /\ Len(errorSnippets) = Len(messages)
       /\ \A i \in 1..Len(messages) :
              errorSnippets[i].context = Trim(WindowText(original, messages[i].line))

(* C15: bounded fan-out.  Whatever limit of concurrent requests the caller   *)
(* asks for, from one request at a time upward, no more requests than that   *)
(* are in flight.                                                            *)
C15_BoundedFanOut ==
    \A limit \in 1..MaxDiags : Cardinality(pending) <= limit

(* C16: a timeout on every completion call.  Every call in flight has an    *)
(* end: it is answered, it fails, or its timeout elapses, so the fix of a   *)
(* file never rests with a request in flight.  And a call that timed out    *)
(* takes nothing from its siblings: the answers they got are in the file at *)
(* the end.                                                                 *)
C16_EveryCallEnds ==
    /\ \A i \in pending : ENABLED (Responds(i) \/ Fails(i) \/ TimeoutElapses(i))
    /\ (Settled /\ \E i \in 1..Len(errorSnippets) : i \in silent) =>
           \A j \in 1..Len(errorSnippets) :
               (j \notin silent /\ Answered(j)) =>
                   \E k \in 1..Len(LinesOf(disk)) : LinesOf(disk)[k] = Answer(j)

(* C17: response normalization.  A response that is a fenced code block,    *)
(* with any language tag or none and with or without white space around it, *)
(* is spliced in as the code inside the fence; no fence marker is in the    *)
(* assembled text or in the file.                                           *)
C17_FenceStripped ==
    /\ pc \in {"assembled", "done"} =>
           /\ \A n \in 1..Len(fixedLines) : fixedLines[n].fixedCode = <<"y">>
           /\ \A k \in 1..Len(fixedCode) : fixedCode[k] # FENCE
    /\ \A k \in 1..Len(disk) : disk[k] # FENCE

(* C18: a run with an operation and no file arguments.  The files of the    *)
(* run are those a scan of the project finds, node_modules, dist and build  *)
(* left out; there are some, and the run does not end on the lack of file   *)
(* arguments.                                                               *)
C18_ScanWithoutFileArguments ==
    /\ (options.files = <<>> /\ mainPc \in {"files", "exist", "eslinted", "done"}) =>
           /\ files = GetFilesToProcess(options)
           /\ files # <<>>
    /\ (options.files = <<>> /\ mainPc = "exited") =>
           reported[Len(reported)] \in {NoOperation, NoApiKey}

BothReadable ==
    \A n \in {".codefixrc", ".codefixrc.json"} : home[n].exists /\ home[n].readable

(* C19: .codefixrc before .codefixrc.json.  With both files there and       *)
(* readable the loaded config is the one of .codefixrc; a config comes from *)
(* .codefixrc.json only when .codefixrc is absent or cannot be read; and a  *)
(* readable .codefixrc is loaded once the startup checks are passed.        *)
C19_RcBeforeJson ==
    /\ (codeFixConfig.loaded /\ BothReadable) =>
           /\ codeFixConfig.from = ".codefixrc"
           /\ codeFixConfig.config = ParseYaml(home[".codefixrc"].content)
    /\ codeFixConfig.from = ".codefixrc.json" =>
           ~(home[".codefixrc"].exists /\ home[".codefixrc"].readable)
    /\ (/\ mainPc \in {"env", "files", "exist", "eslinted", "done"}
        /\ home[".codefixrc"].exists /\ home[".codefixrc"].readable)
       => codeFixConfig.loaded

(* Both files hold a config, a different one each, and the run went through. *)
C19_Witness ==
    /\ mainPc = "done"
    /\ BothReadable
    /\ codeFixConfig.loaded
    /\ home[".codefixrc"].content.syntax = "yaml"
    /\ JSONParse(home[".codefixrc.json"].content).ok
    /\ JSONParse(home[".codefixrc.json"].content).config # codeFixConfig.config
    /\ aiClient.created

(* The config as the user wrote it in the file that was loaded. *)
WrittenConfig == home[codeFixConfig.from].content.of

(* C20: the options of the config file reach the AI client.  A client made  *)
(* after a config file was loaded has the proxy that the file gives under   *)
(* openai.proxy, and a Bedrock client sends its requests with the model the *)
(* file gives under aws.model.                                              *)
C20_ConfigReachesClient ==
    codeFixConfig.loaded =>
        \A c \in {aiClient, typesClient} :
            c.created =>
                /\ (~c.useBedrock /\ WrittenConfig.openai.proxy # <<>>) =>
                       c.proxy = WrittenConfig.openai.proxy
                /\ (c.useBedrock /\ WrittenConfig.aws.model # <<>>) =>
                       BedrockModelId(env) = WrittenConfig.aws.model

(* The config file of the run, as the user wrote it: the first of the two   *)
(* files that is there, can be read and parses; no file is an empty config. *)
ConfigFileOfRun ==
    LET first == ReadFirstConfig(home, CODE_FIX_CONFIG_FILES)
    IN  IF first.loaded THEN home[first.from].content.of ELSE EmptyConfig

(* One of the three AWS values is in neither the config file nor process.env. *)
AwsValueMissing ==
    \/ ConfigFileOfRun.aws.accessKeyId = <<>> /\ env.AWS_ACCESS_KEY_ID = <<>>
    \/ ConfigFileOfRun.aws.secretAccessKey = <<>> /\ env.AWS_SECRET_ACCESS_KEY = <<>>
    \/ ConfigFileOfRun.aws.region = <<>> /\ env.AWS_REGION = <<>>

(* C21: the Bedrock credential check.  A run with --ai and --use-bedrock    *)
(* that lacks the access key id, the secret access key or the region in     *)
(* both the config file and the environment ends on the error of the check: *)
(* it never gets to its files, no client is made, and the one message is    *)
(* that of the missing values.                                              *)
C21_BedrockCredentialsRequired ==
    (options.ai /\ options.useBedrock /\ AwsValueMissing) =>
        /\ mainPc \in {"parsed", "crashed"}
        /\ files = <<>>
        /\ ~aiClient.created /\ ~typesClient.created
        /\ reported = IF mainPc = "crashed" THEN <<MissingCredentials>> ELSE <<>>

(* The run ended on the check with the key and the secret there, in the     *)
(* file or in the environment, and the region in neither.                   *)
C21_Witness ==
    /\ options.ai /\ options.useBedrock /\ options.eslint
    /\ mainPc = "crashed"
    /\ ConfigFileOfRun.aws.region = <<>> /\ env.AWS_REGION = <<>>
    /\ Or(ConfigFileOfRun.aws.accessKeyId, env.AWS_ACCESS_KEY_ID) # <<>>
    /\ Or(ConfigFileOfRun.aws.secretAccessKey, env.AWS_SECRET_ACCESS_KEY) # <<>>
    /\ Or(ConfigFileOfRun.openai.apiKey, env.OPENAI_API_KEY) # <<>>

(* The config file that getESLintConfig went by. *)
FoundFile == fsys[<<configPath.dir, configPath.base>>]

(* The parser of the kind of file throws on its text: JSON.parse and require *)
(* do on a text that is no config; the line parser of the .yaml and .yml     *)
(* files takes every text.                                                   *)
CannotBeParsed ==
    /\ configPath.base \in {".eslintrc.js", ".eslintrc.cjs", ".eslintrc.json"}
    /\ ~FoundFile.valid

DirsWithConfig ==
    {d \in Dirs : /\ Len(d) <= Len(filePath.dir)
                  /\ d = SubSeq(filePath.dir, 1, Len(d))
                  /\ \E n \in 1..Len(CONFIG_FILES) : fsys[<<d, CONFIG_FILES[n]>>].exists}

(* C23: the nearest ESLint config file.  The search stays in the            *)
(* directories from the one of the file up to the root, so it ends; it      *)
(* returns the file of the nearest of these directories that holds one of   *)
(* the five names, the first of the list in that directory, and null only   *)
(* when none of these directories holds one.                                *)
C23_NearestConfig ==
    /\ lintPc = "searching" => Len(currentDir) <= Len(filePath.dir)
    /\ lintPc \in {"found", "returned"} =>
           IF DirsWithConfig = {}
           THEN ~configPath.found
           ELSE /\ configPath.found
                /\ configPath.dir \in DirsWithConfig
                /\ \A d \in DirsWithConfig : Len(d) <= Len(configPath.dir)
                /\ \A n \in 1..Len(CONFIG_FILES) :
                       fsys[<<configPath.dir, CONFIG_FILES[n]>>].exists =>
                           \E m \in 1..n : configPath.base = CONFIG_FILES[m]

(* C24: state unchanged on error.  When the fix of the file threw, at the   *)
(* snippets or at a completion call, the file on disk is as it was before   *)
(* the run; the file differs from what it was only after the write of a fix *)
(* that finished: nothing in flight, every diagnostic resolved and          *)
(* answered, no failure reported, and the text written is the whole result. *)
C24_UnchangedOnError ==
    /\ pc = "failed" => disk = original
    /\ reported # <<>> => (pc = "failed" /\ disk = original)
    /\ disk # original =>
           /\ pc = "done"
           /\ pending = {}
           /\ \A i \in 1..Len(messages) : Resolvable(i) /\ Answered(i)
           /\ disk = fixedCode
           /\ disk = RepairedText(original, messages, backend).text

(* A completion call failed after a sibling was answered with another text  *)
(* than the line it is about; the run is over and the file is as it was.    *)
C24_Witness ==
    /\ pc = "failed"
    /\ pending = {}
    /\ disk = original
    /\ \E i \in 1..Len(results) :
           /\ results[i].filled
           /\ Answer(i) # LinesOf(original)[messages[i].line]
    /\ \E j \in 1..Len(messages) : ~Answered(j)

(* The linted files the loop has taken so far. *)
Taken == {filesWithErrors[j] : j \in 1..fileIndex}

C29_ZeroErrorFilesUntouched ==
    \A k \in 1..Len(lintResults) :
        lintResults[k].errorCount = 0 =>
            /\ k \notin Taken
            /\ \A j \in 1..Len(filesWithErrors) : filesWithErrors[j] # k
            /\ diskOf[k] = lintResults[k].text

(* A file with a warning and no error next to a file with an error that was *)
(* fixed and written.                                                       *)
C29_Witness ==
    /\ loopPc = "complete"
    /\ \E k \in 1..Len(lintResults) :
           /\ lintResults[k].errorCount = 0
           /\ lintResults[k].messages # <<>>
           /\ diskOf[k] = lintResults[k].text
    /\ \E k \in 1..Len(lintResults) :
           /\ lintResults[k].errorCount > 0
           /\ diskOf[k] # lintResults[k].text

(* A file named on the command line is not among the files that are there. *)
MissingArgument ==
    \E k \in 1..Len(options.files) :
        \A j \in 1..Len(ProjectEntries) : ProjectEntries[j] # options.files[k]

(* C26: the existence check comes first.  With a file argument that does    *)
(* not exist the run never gets past the check of index.ts 433-438: it is   *)
(* before the linter and before every client, and where it has ended it has *)
(* ended on an error, the one of the missing file when the earlier checks   *)
(* were passed.                                                             *)
C26_ExistenceCheckFirst ==
    MissingArgument =>
        /\ mainPc \in {"parsed", "checked", "operation", "env", "files",
                       "exited", "crashed"}
        /\ ~aiClient.created /\ ~typesClient.created
        /\ mainPc \in {"exited", "crashed"} =>
               reported \in {<<MissingCredentials>>, <<NoOperation>>, <<NoApiKey>>,
                             <<FileNotFound>>}
        /\ (mainPc = "exited" /\ files # <<>>) => reported = <<FileNotFound>>

(* A run with --eslint --ai, its key in place, on a file that is not there: *)
(* it ended on the missing file.                                            *)
C26_Witness ==
    /\ MissingArgument
    /\ options.eslint /\ options.ai
    /\ mainPc = "exited"
    /\ files = options.files
    /\ reported = <<FileNotFound>>

(* C27: the OpenAI key is asked for only with OpenAI.  A run with --ai and  *)
(* --use-bedrock, an operation and the three AWS values, and no OpenAI key  *)
(* in the config file or the environment, does not end on the lack of an    *)
(* OpenAI key.                                                              *)
C27_KeyOnlyForOpenAI ==
    (/\ options.ai /\ options.useBedrock
     /\ options.eslint \/ options.typescript
     /\ ~AwsValueMissing
     /\ ConfigFileOfRun.openai.apiKey = <<>> /\ env.OPENAI_API_KEY = <<>>)
    => \A k \in 1..Len(reported) : reported[k] # NoApiKey

(* C28: one backend for the whole run.  With --use-bedrock every client the *)
(* run makes, the one that fixes the ESLint errors and the one that adds    *)
(* the types, is a Bedrock client.                                          *)
C28_BedrockForEveryOperation ==
    options.useBedrock =>
        \A c \in {aiClient, typesClient} : c.created => c.useBedrock

(* C30: the connection test comes first.  On the wire of an OpenAI client a *)
(* completion request of a call comes after the answer to the connection    *)
(* test of that call; and after a connection test that failed the call      *)
(* sends no completion request and throws what testConnection makes of the  *)
(* failure.                                                                 *)
C30_ConnectionTestFirst ==
    \A k \in 1..Len(wire) :
        /\ (wire[k].request = "chat.completions.create" /\ wire[k].event = "sent") =>
               \E j \in 1..(k - 1) :
                   wire[j] = Answered2xx(wire[k].call, "models.list")
        /\ (wire[k].request = "models.list" /\ wire[k].event = "failed") =>
               /\ \A j \in 1..Len(wire) :
                      wire[j].call = wire[k].call =>
                          wire[j].request # "chat.completions.create"
               /\ Len(thrown) >= wire[k].call
               /\ thrown[wire[k].call] =
                      Threw(wire[k].call, TestConnectionThrow(wire[k].error))

(* The first call failed at its connection test with a status, the second   *)
(* passed its test and sent its completion request.                         *)
C30_Witness ==
    /\ Len(wire) >= 5
    /\ wire[2].request = "models.list" /\ wire[2].event = "failed"
    /\ wire[2].error.status = 500
    /\ thrown[1] = Threw(1, NewError("request failed, status", 500))
    /\ wire[5] = Sent(2, "chat.completions.create")

====
